---- MODULE Spec2Model ----
(***************************************************************************)
(* A model of the dispatch core of the chat bot:                           *)
(*   - the cross-backend action resolver of src/main.py                    *)
(*     (Bot._resolve_and_add_to_queue, Bot._add_to_queue_with_retry) with  *)
(*     the two backend managers it calls (src/spotify_manager.py,          *)
(*     src/cider_manager.py);                                              *)
(*   - the event-stream client of src/eventsub_client.py as it is started  *)
(*     by Bot.event_ready.                                                 *)
(* Strings that the code searches with `in` and with regular expressions   *)
(* are sequences of lexemes (tokens); each pattern is matched on the       *)
(* token sequence the way the regular expression matches the text.        *)
(***************************************************************************)
EXTENDS Integers, Sequences, FiniteSets, TLC

VARIABLES
    \* ---- resolver (one request in flight) ----
    rpc,            \* position of the request inside the resolver
    req,            \* [target, query, ctx] of the request
    search_query,   \* local search_query of _resolve_and_add_to_queue
    attempt,        \* local attempt of _add_to_queue_with_retry
    codes,          \* outcome codes of the target add calls of this request, in order
    lookups,        \* native-backend get_track_info calls of this request
    notices,        \* retry notices delivered to chat for this request
    slept,          \* seconds awaited in asyncio.sleep by this request
    result,         \* what the resolver returned (or that it raised)
    redemption,     \* the on_channel_point_redemption call the request belongs to
    \* ---- event-stream client ----
    bot,            \* position of Bot.event_ready's EventSub setup
    websocket,      \* EventSubClient.websocket (0: None)
    sock,           \* the connections: state and url of each
    session_id,     \* EventSubClient.session_id
    running,        \* EventSubClient.running
    subscriptions,  \* EventSubClient.subscriptions
    callbacks,      \* EventSubClient.callbacks (the subscription types registered)
    task,           \* the listen() tasks: position and locals of each
    \* ---- chat commands ----
    custom_commands, \* Bot.custom_commands: the triggers of the custom commands
    permissions,    \* Bot.permissions: command name -> allowed roles
    perm_call,      \* the last check_permission call: its arguments and its result
    \* ---- dispatch of custom commands, cooldowns, counters, file watcher ----
    up,             \* the bot process is running
    boots,          \* how many times the process was started
    now,            \* time.time(), in seconds
    msgs,           \* chat messages dispatched since the start of the process
    disp,           \* the event_message tasks: position and command of each
    main,           \* the task running on the event loop between two awaits, and its line
    cooldowns,      \* Bot.cooldowns: command name -> seconds
    cooldown_state, \* Bot.cooldown_state: command name -> time of last use
    counts,         \* NightbotEngine.counts: normalized name -> count
    counts_file,    \* data/counts.json on disk
    fs_events,      \* modification events of counts.json not yet delivered
    last_modified,  \* DataFileHandler.last_modified['counts.json'] (0: not set)
    watcher,        \* the observer thread: position and what it has read
    cd_call,        \* how the last check_cooldown call ended
    passes,         \* per command, when a dispatch last passed a configured cooldown
    expected,       \* counts as loaded at the start plus the increments executed since
    edited,         \* the data files edited from outside since the start
    chat,           \* the lines sent to the channel since the start of the process
    render,         \* the template engine's process / process_response call
    \* ---- routing of chat lines, aliases, command management ----
    command_aliases, \* Bot.command_aliases: main command -> aliases, in dict order
    routed,         \* the last chat line event_message routed, before and after the rewrite
    native,         \* the lines handed to handle_commands since the start
    managed,        \* how the last !addcom / !addalias ... command ended
    ops             \* how many such commands were executed

resolverVars == <<rpc, req, search_query, attempt, codes, lookups, notices, slept, result,
                  redemption>>
eventVars == <<bot, websocket, sock, session_id, running, subscriptions, callbacks,
               task>>
permVars == <<custom_commands, permissions, perm_call>>
dispatchVars == <<up, boots, now, msgs, disp, main, cooldowns, cooldown_state, counts,
                  counts_file, fs_events, last_modified, watcher, cd_call, passes,
                  expected, edited, chat>>
renderVars == <<render>>
routeVars == <<command_aliases, routed, native, managed, ops>>
botVars == <<permVars, dispatchVars, renderVars, routeVars>>
vars == <<resolverVars, eventVars, botVars>>

None == "None"

(***************************************************************************)
(* Text as token sequences                                                 *)
(***************************************************************************)
Digits == {"1440857781", "1440857786"}
LongAlnum == {"4uLU6hMCjMI75M1A2tKUQC"}
Words == {"never", "gonna", "whenever", "Rick", "Astley", "on"}
Alnum == Digits \cup LongAlnum \cup Words
NoSlash == Alnum \cup {" ", "Apple Music", "?i=", "spotify:", "track:"}

Q_TEXT == <<"never", " ", "gonna">>
Q_APPLE_I == <<"https://", "music.apple.com", "/us/album/", "whenever", "/",
               "1440857781", "?i=", "1440857786">>
Q_APPLE_SONG == <<"https://", "music.apple.com", "/us", "/song/", "whenever", "/",
                  "1440857786">>
Q_APPLE_ALBUM == <<"https://", "music.apple.com", "/us/album/", "whenever", "/",
                   "1440857781">>
Q_SPOTIFY_URL == <<"https://", "open.spotify.com", "/track/", "4uLU6hMCjMI75M1A2tKUQC">>
Q_SPOTIFY_URI == <<"spotify:", "track:", "4uLU6hMCjMI75M1A2tKUQC">>
Q_SPOTIFY_ALBUM == <<"https://", "open.spotify.com", "/album/", "4uLU6hMCjMI75M1A2tKUQC">>

Queries == {Q_TEXT, Q_APPLE_I, Q_APPLE_SONG, Q_APPLE_ALBUM,
            Q_SPOTIFY_URL, Q_SPOTIFY_URI, Q_SPOTIFY_ALBUM}

\* some token of s holds the text `needle` (Python's `needle in s`)
Holds(needle) ==
    CASE needle = "spotify.com" -> {"open.spotify.com"}
      [] needle = "spotify:" -> {"spotify:"}
      [] needle = "music.apple.com" -> {"music.apple.com"}
      [] OTHER -> {}

Contains(s, needle) == \E i \in 1..Len(s) : s[i] \in Holds(needle)

\* the positions at which the literal token sequence lit occurs in s
Occurs(s, lit) ==
    {i \in 1..Len(s) : /\ i + Len(lit) - 1 <= Len(s)
                       /\ \A k \in 1..Len(lit) : s[i + k - 1] = lit[k]}

Min(S) == CHOOSE x \in S : \A y \in S : x <= y

\* re.search(lit + '(class+)'): the group of the leftmost match, None if no match
GroupAfter(s, lits, class) ==
    LET hits == {i \in UNION {Occurs(s, l) : l \in lits} :
                    \E l \in lits : /\ i \in Occurs(s, l)
                                    /\ i + Len(l) <= Len(s)
                                    /\ s[i + Len(l)] \in class}
    IN IF hits = {} THEN None
       ELSE LET i == Min(hits)
                l == CHOOSE l \in lits : /\ i \in Occurs(s, l)
                                         /\ i + Len(l) <= Len(s)
                                         /\ s[i + Len(l)] \in class
            IN s[i + Len(l)]

SpotifyExtractTrackId(s) ==
    LET url == GroupAfter(s, {<<"open.spotify.com", "/track/">>}, Alnum)
        uri == GroupAfter(s, {<<"spotify:", "track:">>}, Alnum)
    IN IF url # None THEN url
       ELSE IF uri # None THEN uri
       ELSE IF Len(s) = 1 /\ s[1] \in LongAlnum THEN s[1]
       ELSE None

\* r'/song/[^/]+/(\d+)': "/song/", one segment without a slash, "/", digits
SongGroup(s) ==
    LET hits == {i \in Occurs(s, <<"/song/">>) :
                    /\ i + 3 <= Len(s)
                    /\ s[i + 1] \in NoSlash
                    /\ s[i + 2] = "/"
                    /\ s[i + 3] \in Digits}
    IN IF hits = {} THEN None ELSE s[Min(hits) + 3]

CiderExtractTrackId(s) ==
    LET i_match == GroupAfter(s, {<<"?i=">>, <<"&i=">>}, Digits)
        song_match == SongGroup(s)
    IN IF i_match # None THEN i_match
       ELSE IF song_match # None THEN song_match
       ELSE IF Len(s) = 1 /\ s[1] \in Digits THEN s[1]
       ELSE None

\* str.replace(old, ''): the tokens equal to old are dropped
RECURSIVE Replace(_, _)
Replace(s, old) ==
    IF s = <<>> THEN <<>>
    ELSE IF Head(s) = old THEN Replace(Tail(s), old)
    ELSE <<Head(s)>> \o Replace(Tail(s), old)

\* str.strip(): leading and trailing blanks are dropped
RECURSIVE LStrip(_)
LStrip(s) == IF s # <<>> /\ Head(s) = " " THEN LStrip(Tail(s)) ELSE s

RECURSIVE RStrip(_)
RStrip(s) ==
    IF s # <<>> /\ s[Len(s)] = " " THEN RStrip(SubSeq(s, 1, Len(s) - 1)) ELSE s

Strip(s) == LStrip(RStrip(s))

(***************************************************************************)
(* The backend managers. Each call's answers from the outside world (the  *)
(* Spotify Web API, the Cider client, the iTunes search) are the env      *)
(* argument; the operator is what the manager computes from them.         *)
(***************************************************************************)
NoTrack == [name |-> <<>>, artist |-> <<>>]
Ret(ok, code, track) == [kind |-> "return", ok |-> ok, code |-> code, track |-> track]
Raised == [kind |-> "raise", ok |-> FALSE, code |-> "exception", track |-> NoTrack]
NoResult == [kind |-> "none", ok |-> FALSE, code |-> None, track |-> NoTrack]

TrackFull == [name |-> <<"never", " ", "gonna">>, artist |-> <<"Rick", " ", "Astley">>]
\* a title scraped as "... by Rick on Apple Music": the artist keeps the suffix
TrackSuffix == [name |-> <<"never", " ", "gonna">>,
                artist |-> <<"Rick", " ", "on", " ", "Apple Music">>]

SpotifyEnvs == [search : {"ok", "none", "timeout", "error"},
                info : {"ok", "none"},
                queue : {"ok", "404", "403", "api_error", "exception"}]

SpotifySearchTrack(env) ==
    CASE env.search = "none" -> Ret(FALSE, "SEARCH_NO_RESULTS", NoTrack)
      [] env.search = "timeout" -> Ret(FALSE, "SEARCH_TIMEOUT", NoTrack)
      [] env.search = "error" -> Ret(FALSE, "SEARCH_ERROR", NoTrack)
      [] OTHER -> Ret(TRUE, "SEARCH_SUCCESS", TrackFull)

SpotifyAddToQueue(track_input, api_enabled, env) ==
    LET track_id == SpotifyExtractTrackId(track_input)
        found == SpotifySearchTrack(env)
    IN IF track_id = None /\ ~api_enabled THEN Ret(FALSE, "SEARCH_REQUIRES_API", NoTrack)
       ELSE IF track_id = None /\ ~found.ok THEN Ret(FALSE, found.code, NoTrack)
       ELSE IF env.info = "none" THEN Ret(FALSE, "TRACK_INFO_FAILED", NoTrack)
       ELSE IF api_enabled
            THEN CASE env.queue = "ok" -> Ret(TRUE, "QUEUE_SUCCESS", TrackFull)
                   [] env.queue = "404" -> Ret(FALSE, "NO_DEVICE", NoTrack)
                   [] env.queue = "403" -> Ret(FALSE, "PREMIUM_REQUIRED", NoTrack)
                   [] env.queue = "api_error" -> Ret(FALSE, "SPOTIFY_API_ERROR", NoTrack)
                   [] OTHER -> Ret(FALSE, "QUEUE_ADD_FAILED", NoTrack)
            ELSE Ret(TRUE, "RESOLVED_ONLY", TrackFull)

CiderEnvs == [search : {"cider", "itunes", "none", "error"},
              post : {"ok", "fail"}]

CiderSearchItunes(env) ==
    CASE env.search = "itunes" -> Ret(TRUE, "SEARCH_SUCCESS", TrackFull)
      [] env.search = "error" -> Ret(FALSE, "SEARCH_ERROR", NoTrack)
      [] OTHER -> Ret(FALSE, "SEARCH_NO_RESULTS", NoTrack)

CiderSearchTrack(env) ==
    IF env.search = "cider" THEN Ret(TRUE, "SEARCH_SUCCESS", TrackFull)
    ELSE CiderSearchItunes(env)

CiderAddToQueue(input_str, env) ==
    LET track_id == CiderExtractTrackId(input_str)
        found == CiderSearchTrack(env)
    IN IF track_id = None /\ ~found.ok THEN Ret(FALSE, found.code, NoTrack)
       ELSE IF env.post = "ok" THEN Ret(TRUE, "QUEUE_SUCCESS", TrackFull)
       ELSE Ret(FALSE, "QUEUE_ADD_FAILED", NoTrack)

\* what get_track_info of the link's own backend answers
CiderInfos == {"none", "full", "suffix", "no_artist"}
SpotifyInfos == {"none", "full"}

InfoTrack(info) == IF info = "suffix" THEN TrackSuffix ELSE TrackFull

(***************************************************************************)
(* Bot._resolve_and_add_to_queue and Bot._add_to_queue_with_retry          *)
(***************************************************************************)
max_retries == 1
RETRY_DELAY == 5
retryable_codes_and_no_device ==
    {"SPOTIFY_API_ERROR", "QUEUE_TIMEOUT", "SEARCH_TIMEOUT", "SEARCH_ERROR", "NO_DEVICE"}
retryable_codes == {"SPOTIFY_API_ERROR", "QUEUE_TIMEOUT", "SEARCH_TIMEOUT", "SEARCH_ERROR"}

is_spotify_link(query) == Contains(query, "spotify.com") \/ Contains(query, "spotify:")
is_apple_link(query) == Contains(query, "music.apple.com")

\* f"{info['artist'].replace('Apple Music', '').strip()} {info['name']}"
AppleSearchQuery(info) == Strip(Replace(info.artist, "Apple Music")) \o <<" ">> \o info.name
\* f"{info['artist']} {info['name']}"
SpotifySearchQuery(info) == info.artist \o <<" ">> \o info.name

\* the settings a redemption is handled under
Settings == [disable_requests_offline : BOOLEAN, spotify_requests_enabled : BOOLEAN,
             auto_fulfill_on_success : BOOLEAN, auto_refund_on_error : BOOLEAN]
NoSettings == [disable_requests_offline |-> FALSE, spotify_requests_enabled |-> TRUE,
               auto_fulfill_on_success |-> TRUE, auto_refund_on_error |-> TRUE]
\* no redemption is being handled (the request in the resolver is a chat command's)
NoRedemption == [pc |-> "none", settings |-> NoSettings, is_live |-> TRUE,
                 user_input |-> <<>>, ids |-> TRUE, chan |-> TRUE,
                 updates |-> <<>>, raised |-> FALSE]
UserInputs == {<<>>, Q_TEXT, Q_APPLE_I, Q_SPOTIFY_URL}

\* the locals of a request are fresh
Fresh(query) ==
    /\ search_query' = query
    /\ attempt' = 0
    /\ codes' = <<>>
    /\ lookups' = 0
    /\ notices' = 0
    /\ slept' = 0
    /\ result' = NoResult

\* a request of a chat command enters the resolver (cmd_song_request,
\* cmd_cider_request): both call _resolve_and_add_to_queue with their ctx
StartRequest(target, query, ctx, api) ==
    /\ rpc = "idle"
    /\ rpc' = "resolve"
    /\ req' = [target |-> target, query |-> query, ctx |-> ctx, api |-> api]
    /\ Fresh(query)
    /\ redemption' = NoRedemption
    /\ UNCHANGED <<eventVars, botVars>>

\* the handler returns here (or an exception of chan.send leaves it)
Leaves(r, updates, raised) ==
    [r EXCEPT !.pc = "done", !.updates = r.updates \o updates, !.raised = raised]

\* update_redemption_status is called when both ids are present
Update(r, status) == IF r.ids THEN <<status>> ELSE <<>>

\* the handler gets as far as the enqueue
Enqueues(e) ==
    /\ ~(e.settings.disable_requests_offline /\ ~e.is_live)
    /\ e.user_input # <<>>
    /\ e.settings.spotify_requests_enabled
    /\ e.chan

\* a redemption event with the settings and the answers of the outside world it
\* is handled under; what the handler does not read is left at its default
RedemptionEvents ==
    {e \in [settings : Settings, is_live : BOOLEAN, user_input : UserInputs,
            ids : BOOLEAN, chan : BOOLEAN, sent : BOOLEAN,
            target : {"spotify", "cider"}, api : BOOLEAN] :
        /\ ~e.settings.disable_requests_offline => e.is_live
        /\ (~e.chan \/ Enqueues(e)) => e.sent
        /\ ~Enqueues(e) => /\ e.target = "spotify"
                           /\ e.api
                           /\ e.settings.auto_fulfill_on_success
                           /\ e.settings.auto_refund_on_error}

\* on_channel_point_redemption of a song-request reward, up to the call of the
\* resolver: with target cider _resolve_and_add_to_queue is called, with any other
\* target _add_to_queue_with_retry is called directly with the raw input
OnChannelPointRedemption(e) ==
    /\ rpc = "idle"
    /\ LET settings == e.settings
           is_live == e.is_live
           user_input == e.user_input
           chan == e.chan
           sent == e.sent
           target == e.target
           api == e.api
           r == [NoRedemption EXCEPT !.pc = "enqueue", !.settings = settings,
                                     !.is_live = is_live, !.user_input = user_input,
                                     !.ids = e.ids, !.chan = chan]
           refused == \* the notice is sent first; a failing send leaves the handler
               IF chan /\ ~sent THEN Leaves(r, <<>>, TRUE)
               ELSE Leaves(r, Update(r, "CANCELED"), FALSE)
       IN IF settings.disable_requests_offline /\ ~is_live
          THEN /\ redemption' = refused
               /\ UNCHANGED <<rpc, req>>
          ELSE IF user_input = <<>>
          THEN /\ redemption' = Leaves(r, <<>>, FALSE)
               /\ UNCHANGED <<rpc, req>>
          ELSE IF ~settings.spotify_requests_enabled
          THEN /\ redemption' = refused
               /\ UNCHANGED <<rpc, req>>
          ELSE IF ~chan
          THEN /\ redemption' = Leaves(r, <<>>, FALSE)
               /\ UNCHANGED <<rpc, req>>
          ELSE /\ redemption' = r
               /\ rpc' = IF target = "cider" THEN "resolve" ELSE "target"
               /\ req' = [target |-> target, query |-> user_input, ctx |-> FALSE,
                          api |-> api]
    /\ Fresh(e.user_input)
    /\ UNCHANGED <<eventVars, botVars>>

\* step 1 of _resolve_and_add_to_queue: a link of the other backend is looked up
\* on its own backend
ResolveLink(cinfo, sinfo) ==
    /\ rpc = "resolve"
    /\ IF req.target = "spotify" /\ is_apple_link(req.query)
       THEN IF CiderExtractTrackId(req.query) # None
            THEN /\ lookups' = lookups + 1
                 /\ CASE cinfo = "none" ->
                           /\ result' = Ret(FALSE, "Could not resolve Apple Music link (Cider offline?)", NoTrack)
                           /\ rpc' = "done"
                           /\ UNCHANGED search_query
                      [] cinfo = "no_artist" ->
                           \* None.replace(...) raises AttributeError
                           /\ result' = Raised
                           /\ rpc' = "done"
                           /\ UNCHANGED search_query
                      [] OTHER ->
                           /\ search_query' = AppleSearchQuery(InfoTrack(cinfo))
                           /\ rpc' = "target"
                           /\ UNCHANGED result
            ELSE /\ rpc' = "target"
                 /\ UNCHANGED <<search_query, lookups, result>>
       ELSE IF req.target = "cider" /\ is_spotify_link(req.query)
       THEN IF SpotifyExtractTrackId(req.query) # None
            THEN /\ lookups' = lookups + 1
                 /\ IF sinfo = "none"
                    THEN /\ result' = Ret(FALSE, "Could not resolve Spotify link", NoTrack)
                         /\ rpc' = "done"
                         /\ UNCHANGED search_query
                    ELSE /\ search_query' = SpotifySearchQuery(InfoTrack(sinfo))
                         /\ rpc' = "target"
                         /\ UNCHANGED result
            ELSE /\ rpc' = "target"
                 /\ UNCHANGED <<search_query, lookups, result>>
       ELSE /\ rpc' = "target"
            /\ UNCHANGED <<search_query, lookups, result>>
    /\ UNCHANGED <<req, attempt, codes, notices, slept, redemption,
                   eventVars, botVars>>

\* step 2 with target cider: the add is called directly
CiderTarget(env) ==
    /\ rpc = "target"
    /\ req.target = "cider"
    /\ LET r == CiderAddToQueue(search_query, env)
       IN /\ codes' = Append(codes, r.code)
          /\ result' = r
    /\ rpc' = "done"
    /\ UNCHANGED <<req, search_query, attempt, lookups, notices, slept, redemption,
                   eventVars, botVars>>

\* the code retries this outcome of this attempt
ShouldRetryLate(code, att) == code \in retryable_codes /\ att <= max_retries
ShouldRetry(code, att) == code \in retryable_codes /\ att < max_retries

\* step 2 with target spotify: one turn of the loop of _add_to_queue_with_retry
SpotifyAttempt(env) ==
    /\ rpc = "target"
    /\ req.target = "spotify"
    /\ IF attempt <= max_retries
       THEN LET r == SpotifyAddToQueue(search_query, req.api, env)
            IN /\ codes' = Append(codes, r.code)
               /\ IF ~r.ok /\ ShouldRetry(r.code, attempt)
                  THEN /\ rpc' = "notify"
                       /\ UNCHANGED result
                  ELSE /\ rpc' = "done"
                       /\ result' = r
       ELSE /\ rpc' = "done"
            /\ result' = Ret(FALSE, "RETRIES_EXHAUSTED", NoTrack)
            /\ UNCHANGED codes
    /\ UNCHANGED <<req, search_query, attempt, lookups, notices, slept, redemption,
                   eventVars, botVars>>

\* the retry notice: ctx.send is guarded, the channel's send of a request
\* without ctx is not
RetryNotice(chan, sent) ==
    /\ rpc = "notify"
    /\ IF req.ctx
       THEN /\ notices' = IF sent THEN notices + 1 ELSE notices
            /\ rpc' = "sleep"
            /\ UNCHANGED result
       ELSE IF ~chan
       THEN /\ rpc' = "sleep"
            /\ UNCHANGED <<notices, result>>
       ELSE IF sent
       THEN /\ notices' = notices + 1
            /\ rpc' = "sleep"
            /\ UNCHANGED result
       ELSE /\ result' = Raised
            /\ rpc' = "done"
            /\ UNCHANGED notices
    /\ UNCHANGED <<req, search_query, attempt, codes, lookups, slept, redemption,
                   eventVars, botVars>>

\* await asyncio.sleep(5); attempt += 1; continue
RetryDelay ==
    /\ rpc = "sleep"
    /\ slept' = slept + RETRY_DELAY
    /\ attempt' = attempt + 1
    /\ rpc' = "target"
    /\ UNCHANGED <<req, search_query, codes, lookups, notices, result, redemption,
                   eventVars, botVars>>

\* the chat command takes the result; the resolver is free for the next request
Finish ==
    /\ rpc = "done"
    /\ redemption.pc = "none"
    /\ rpc' = "idle"
    /\ UNCHANGED <<req, search_query, attempt, codes, lookups, notices, slept, result,
                   redemption, eventVars, botVars>>

\* auto_refund = self.settings.get('auto_refund_on_error', True)
auto_refund_forced(settings) == TRUE
auto_refund(settings) == settings.auto_refund_on_error

\* on_channel_point_redemption takes the result: the status update, then the
\* message to the channel; an exception of the resolver leaves the handler
RedemptionResult(sent) ==
    /\ rpc = "done"
    /\ redemption.pc = "enqueue"
    /\ rpc' = "idle"
    /\ redemption' =
          IF result.kind = "raise" THEN Leaves(redemption, <<>>, TRUE)
          ELSE IF result.ok
          THEN Leaves(redemption,
                        IF redemption.settings.auto_fulfill_on_success
                        THEN Update(redemption, "FULFILLED") ELSE <<>>,
                        ~sent)
          ELSE IF auto_refund(redemption.settings)
          THEN Leaves(redemption, Update(redemption, "CANCELED"), ~sent)
          ELSE Leaves(redemption, <<>>, ~sent)
    /\ UNCHANGED <<req, search_query, attempt, codes, lookups, notices, slept, result,
                   eventVars, botVars>>

NextResolve ==
    \/ \E target \in {"spotify", "cider"}, query \in Queries, api \in BOOLEAN :
          StartRequest(target, query, TRUE, api)
    \/ \E e \in RedemptionEvents : OnChannelPointRedemption(e)
    \/ \E cinfo \in CiderInfos, sinfo \in SpotifyInfos : ResolveLink(cinfo, sinfo)
    \/ \E env \in CiderEnvs : CiderTarget(env)
    \/ \E env \in SpotifyEnvs : SpotifyAttempt(env)
    \/ \E chan \in BOOLEAN, sent \in BOOLEAN : RetryNotice(chan, sent)
    \/ RetryDelay
    \/ Finish
    \/ \E sent \in BOOLEAN : RedemptionResult(sent)

(***************************************************************************)
(* EventSubClient, as Bot.event_ready starts it.                           *)
(* A connection is open, closed_ok (a clean close, by the peer or by the   *)
(* client's own close()) or closed_err (any other end). `async for` over a *)
(* connection ends without an exception when the close was clean, raises   *)
(* when it was not, and raises when another task is already waiting in     *)
(* recv on the same connection.                                            *)
(***************************************************************************)
MaxTasks == 2
Tasks == 1..MaxTasks
Sockets == 1..(MaxTasks + 2)

max_reconnect_attempts == 5
BACKOFF_CAP == 32
EVENTSUB_WS_URL == "wss://eventsub.wss.twitch.tv/ws"
ReconnectUrls == {"wss://cell-b.eventsub.wss.twitch.tv/ws"}
SessionIds == {"AQoQexAWVYKSTIu4ec", "AQoQILE98gtqShGmLD"}
sub_type == "channel.channel_points_custom_reward_redemption.add"
NotificationTypes == {sub_type, "channel.follow"}
PostStatuses == {"202", "409", "400", "exception"}
BROADCASTER_ID == "141981764"

NoTask == [pc |-> "none", ws |-> 0, attempts |-> 0, fails |-> 0, delay |-> 0,
           i |-> 0, welcome |-> None, posts |-> <<>>, url |-> None,
           caught |-> FALSE]
NewTask == [NoTask EXCEPT !.pc = "top"]
NoSock == [state |-> "free", url |-> None]

Referenced(s) == websocket = s \/ \E l \in Tasks : task[l].ws = s
NewSock == Min({s \in Sockets : ~Referenced(s)})
FreeTasks == {l \in Tasks : task[l].pc = "none"}

\* websocket.close(): a clean close of a connection that is still open
CloseSock(sk, s) ==
    IF s # 0 /\ sk[s].state = "open" THEN [sk EXCEPT ![s].state = "closed_ok"] ELSE sk

OpenSock(sk, s, url) == [sk EXCEPT ![s] = [state |-> "open", url |-> url]]

\* the client's new state; a connection that nothing refers to any more is dropped
Commit(w, sk, tk) ==
    /\ websocket' = w
    /\ task' = tk
    /\ sock' = [s \in Sockets |->
                  IF w = s \/ \E l \in Tasks : tk[l].ws = s THEN sk[s] ELSE NoSock]

RECURSIVE Pow2(_)
Pow2(n) == IF n = 0 THEN 1 ELSE 2 * Pow2(n - 1)

\* delay = min(2 ** reconnect_attempts, 32)
BackoffLinear(n) == IF 2 * n < BACKOFF_CAP THEN 2 * n ELSE BACKOFF_CAP
Backoff(n) == IF Pow2(n) < BACKOFF_CAP THEN Pow2(n) ELSE BACKOFF_CAP

\* self.subscriptions.append({...}) and self.callbacks[sub_type] = callback
subscribe_channel_points(subs, broadcaster_id) ==
    Append(subs, [type |-> sub_type, broadcaster_id |-> broadcaster_id])

\* the payload create_subscriptions posts for one subscription
Payload(sub, sess) ==
    [type |-> sub.type, version |-> "1", broadcaster_user_id |-> sub.broadcaster_id,
     method |-> "websocket", session_id |-> sess]

\* self.session_id = data['payload']['session']['id']
StaleSession(sid) == session_id
WelcomeSession(sid) == sid

\* reconnect_attempts = 0 after handle_message has returned
ResetAttempts(tk) == [tk EXCEPT !.attempts = 0, !.fails = 0, !.i = 0, !.url = None]

\* the listener gives up on this exception
GivesUp(tk) == running /\ tk.attempts + 1 > max_reconnect_attempts

\* the except branch of listen(), up to the sleep it awaits
ExceptRec(tk) ==
    IF ~running \/ GivesUp(tk) THEN NoTask
    ELSE [NoTask EXCEPT !.pc = "sleep",
                        !.attempts = tk.attempts + 1,
                        !.fails = tk.fails + 1,
                        !.delay = Backoff(tk.attempts + 1)]

\* another task is already waiting in recv on connection s
Concurrent(l, s) == \E m \in Tasks \ {l} : task[m].pc = "iter" /\ task[m].ws = s

\* task l, with locals tk, asks connection s for the next message
ResumeRec(l, tk, s) ==
    IF Concurrent(l, s) THEN ExceptRec(tk) ELSE [tk EXCEPT !.pc = "iter", !.ws = s]
ResumeQuits(l, tk, s) == Concurrent(l, s) /\ GivesUp(tk)

\* the message is handled: the counter is reset and the next one is awaited
Handled(l, tk) ==
    LET t0 == ResetAttempts(tk)
    IN /\ Commit(websocket, sock, [task EXCEPT ![l] = ResumeRec(l, t0, tk.ws)])
       /\ running' = IF ResumeQuits(l, t0, tk.ws) THEN FALSE ELSE running

Receiving(l) == task[l].pc = "iter" /\ sock[task[l].ws].state = "open"

\* Bot.event_ready: connect(), then subscribe_channel_points, with no await between
\* the creation of the listen task and the registration
EventReady(ok) ==
    /\ bot = "start"
    /\ IF ok
       THEN /\ Commit(NewSock, OpenSock(sock, NewSock, EVENTSUB_WS_URL),
                      [task EXCEPT ![Min(FreeTasks)] = NewTask])
            /\ running' = TRUE
            /\ subscriptions' = subscribe_channel_points(subscriptions, BROADCASTER_ID)
            /\ callbacks' = callbacks \cup {sub_type}
            /\ bot' = "ready"
       ELSE /\ bot' = "failed"
            /\ UNCHANGED <<websocket, sock, running, task, subscriptions, callbacks>>
    /\ UNCHANGED <<session_id, resolverVars, botVars>>

\* while self.running: async for message in self.websocket
ListenTop(l) ==
    /\ task[l].pc = "top"
    /\ IF running
       THEN /\ Commit(websocket, sock, [task EXCEPT ![l] = ResumeRec(l, task[l], websocket)])
            /\ running' = IF ResumeQuits(l, task[l], websocket) THEN FALSE ELSE running
       ELSE /\ Commit(websocket, sock, [task EXCEPT ![l] = NoTask])
            /\ UNCHANGED running
    /\ UNCHANGED <<bot, session_id, subscriptions, callbacks, resolverVars, botVars>>

\* session_welcome: the session id is taken and create_subscriptions posts the
\* first subscription
RecvWelcome(l, sid) ==
    /\ Receiving(l)
    /\ session_id' = WelcomeSession(sid)
    /\ IF session_id' = None \/ subscriptions = <<>>
       THEN Handled(l, [task[l] EXCEPT !.welcome = sid, !.posts = <<>>, !.caught = FALSE])
       ELSE /\ Commit(websocket, sock,
                      [task EXCEPT ![l] =
                          [task[l] EXCEPT !.pc = "posting", !.i = 1, !.welcome = sid,
                                          !.caught = FALSE,
                                          !.posts = <<Payload(subscriptions[1], session_id')>>]])
            /\ UNCHANGED running
    /\ UNCHANGED <<bot, subscriptions, callbacks, resolverVars, botVars>>

\* the answer to one subscription POST (202, 409, another status, an exception:
\* each is only logged); the next subscription is posted, or the welcome is handled
PostDone(l, status) ==
    /\ task[l].pc = "posting"
    /\ IF task[l].i < Len(subscriptions)
       THEN /\ Commit(websocket, sock,
                      [task EXCEPT ![l] =
                          [task[l] EXCEPT !.i = task[l].i + 1,
                                          !.posts = Append(task[l].posts,
                                              Payload(subscriptions[task[l].i + 1], session_id))]])
            /\ UNCHANGED running
       ELSE Handled(l, task[l])
    /\ UNCHANGED <<bot, session_id, subscriptions, callbacks, resolverVars, botVars>>

\* notification: the callback registered for its subscription type is awaited
\* Bot.stop: close() of the chat client is run on the loop and waited for; the
\* EventSubClient (self.eventsub) is not touched and has no close of its own
BotStop ==
    /\ bot # "stopped"
    /\ bot' = "stopped"
    /\ UNCHANGED <<websocket, sock, session_id, running, subscriptions, callbacks, task,
                   resolverVars, botVars>>

RecvNotification(l, type) ==
    /\ Receiving(l)
    /\ IF type \in callbacks
       THEN /\ Commit(websocket, sock,
                      [task EXCEPT ![l] = [task[l] EXCEPT !.pc = "callback", !.welcome = None,
                                                          !.posts = <<>>, !.caught = FALSE]])
            /\ UNCHANGED running
       ELSE Handled(l, [task[l] EXCEPT !.welcome = None, !.posts = <<>>, !.caught = FALSE])
    /\ UNCHANGED <<bot, session_id, subscriptions, callbacks, resolverVars, botVars>>

\* what the callback raises is caught by the except of handle_notification, so
\* nothing escapes into listen(); caught records that this happened
EscapesUncaught(raised) == raised
Escapes(raised) == FALSE

\* the callback returns or raises
CallbackDone(l, raised) ==
    /\ task[l].pc = "callback"
    /\ IF Escapes(raised)
       THEN /\ Commit(websocket, sock, [task EXCEPT ![l] = ExceptRec(task[l])])
            /\ running' = IF GivesUp(task[l]) THEN FALSE ELSE running
       ELSE Handled(l, [task[l] EXCEPT !.caught = raised])
    /\ UNCHANGED <<bot, session_id, subscriptions, callbacks, resolverVars, botVars>>

\* any other message (session_keepalive, an unknown type, a malformed one)
RecvOther(l) ==
    /\ Receiving(l)
    /\ Handled(l, [task[l] EXCEPT !.welcome = None, !.posts = <<>>, !.caught = FALSE])
    /\ UNCHANGED <<bot, session_id, subscriptions, callbacks, resolverVars, botVars>>

\* session_reconnect: reconnect(url) is awaited inside handle_message
RecvReconnect(l, url) ==
    /\ Receiving(l)
    /\ Cardinality({m \in Tasks : task[m].pc = "reconnect"}) < Cardinality(FreeTasks)
    /\ Commit(websocket, sock,
              [task EXCEPT ![l] = [task[l] EXCEPT !.pc = "reconnect", !.url = url,
                                                  !.welcome = None, !.posts = <<>>,
                                                  !.caught = FALSE]])
    /\ UNCHANGED <<bot, session_id, running, subscriptions, callbacks, resolverVars, botVars>>

\* reconnect(url): close the current connection, connect to url, start a listen
\* task; a failed connect raises into handle_message, which catches it
ReconnectDone(l, ok) ==
    /\ task[l].pc = "reconnect"
    /\ LET t0 == ResetAttempts(task[l])
           new == Min(FreeTasks)
       IN /\ IF ok
             THEN Commit(NewSock,
                         OpenSock(CloseSock(sock, websocket), NewSock, task[l].url),
                         [task EXCEPT ![l] = ResumeRec(l, t0, task[l].ws),
                                      ![new] = NewTask])
             ELSE Commit(websocket, CloseSock(sock, websocket),
                         [task EXCEPT ![l] = ResumeRec(l, t0, task[l].ws)])
          /\ running' = IF ResumeQuits(l, t0, task[l].ws) THEN FALSE ELSE running
    /\ UNCHANGED <<bot, session_id, subscriptions, callbacks, resolverVars, botVars>>

\* the transport of a connection in use fails
SocketError(s) ==
    /\ Referenced(s)
    /\ sock[s].state = "open"
    /\ sock' = [sock EXCEPT ![s].state = "closed_err"]
    /\ UNCHANGED <<bot, websocket, session_id, running, subscriptions, callbacks, task,
                   resolverVars, botVars>>

\* the peer closes a connection in use cleanly
SocketClose(s) ==
    /\ Referenced(s)
    /\ sock[s].state = "open"
    /\ sock' = [sock EXCEPT ![s].state = "closed_ok"]
    /\ UNCHANGED <<bot, websocket, session_id, running, subscriptions, callbacks, task,
                   resolverVars, botVars>>

\* async for ends without an exception: back to `while self.running`
IterEnd(l) ==
    /\ task[l].pc = "iter"
    /\ sock[task[l].ws].state = "closed_ok"
    /\ Commit(websocket, sock,
              [task EXCEPT ![l] = [NoTask EXCEPT !.pc = "top", !.attempts = task[l].attempts,
                                                 !.fails = task[l].fails]])
    /\ UNCHANGED <<bot, session_id, running, subscriptions, callbacks, resolverVars, botVars>>

\* async for raises: the except branch of listen()
IterError(l) ==
    /\ task[l].pc = "iter"
    /\ sock[task[l].ws].state = "closed_err"
    /\ Commit(websocket, sock, [task EXCEPT ![l] = ExceptRec(task[l])])
    /\ running' = IF GivesUp(task[l]) THEN FALSE ELSE running
    /\ UNCHANGED <<bot, session_id, subscriptions, callbacks, resolverVars, botVars>>

\* the backoff sleep is over: fresh_connect(); what it raises is caught by listen()
FreshConnect(l, ok) ==
    /\ task[l].pc = "sleep"
    /\ LET tk == [task EXCEPT ![l] = [task[l] EXCEPT !.pc = "top", !.delay = 0]]
       IN IF ok
          THEN /\ Commit(NewSock,
                         OpenSock(CloseSock(sock, websocket), NewSock, EVENTSUB_WS_URL), tk)
               /\ session_id' = None
          ELSE /\ Commit(websocket, CloseSock(sock, websocket), tk)
               /\ UNCHANGED session_id
    /\ UNCHANGED <<bot, running, subscriptions, callbacks, resolverVars, botVars>>

NextEvent ==
    \/ \E ok \in BOOLEAN : EventReady(ok)
    \/ \E l \in Tasks : ListenTop(l)
    \/ \E l \in Tasks, sid \in SessionIds : RecvWelcome(l, sid)
    \/ \E l \in Tasks, status \in PostStatuses : PostDone(l, status)
    \/ \E l \in Tasks, type \in NotificationTypes : RecvNotification(l, type)
    \/ \E l \in Tasks, raised \in BOOLEAN : CallbackDone(l, raised)
    \/ \E l \in Tasks : RecvOther(l)
    \/ \E l \in Tasks, url \in ReconnectUrls : RecvReconnect(l, url)
    \/ \E l \in Tasks, ok \in BOOLEAN : ReconnectDone(l, ok)
    \/ \E s \in Sockets : SocketError(s)
    \/ \E s \in Sockets : SocketClose(s)
    \/ \E l \in Tasks : IterEnd(l)
    \/ \E l \in Tasks : IterError(l)
    \/ \E l \in Tasks, ok \in BOOLEAN : FreshConnect(l, ok)
    \/ BotStop

(***************************************************************************)
(* Chat commands: names and the permission check (src/main.py)             *)
(***************************************************************************)
\* a name is the sequence of its characters
CMD_HI == <<"!", "h", "i">>
BARE_HI == <<"h", "i">>
CMD_SR == <<"!", "s", "r">>
KEY_HI_UPPER == <<"!", "H", "i">>

\* str.lower()
LowerChar(c) == CASE c = "H" -> "h" [] c = "S" -> "s" [] c = "T" -> "t" [] OTHER -> c
Lower(s) == [i \in 1..Len(s) |-> LowerChar(s[i])]

\* str.startswith('!')
StartsWithBang(s) == s # <<>> /\ s[1] = "!"

Roles == {"everyone", "moderator", "subscriber", "vip", "broadcaster"}
RoleLists == {{}, {"everyone"}, {"moderator"}, {"subscriber"}, {"vip"},
              {"moderator", "broadcaster"}}

\* config.PERMISSIONS, the defaults of a first start
PERMISSIONS == (CMD_SR :> {"moderator", "broadcaster"})

\* the tables permissions.json can hold
PermKeys == {CMD_HI, BARE_HI, KEY_HI_UPPER}
PermissionTables == UNION {[K -> RoleLists] : K \in SUBSET PermKeys}

\* ctx.author of a chat message: the flags of the invoker
Authors == [is_broadcaster : BOOLEAN, is_mod : BOOLEAN, is_subscriber : BOOLEAN,
            is_vip : BOOLEAN]

\* the names check_permission is called with: literals and lower-cased first words
CheckedNames == {CMD_HI, BARE_HI, CMD_SR}

\* the effective permission key; the empty name stands for perm_key = None
PermKey(cmd, table) ==
    IF cmd \in DOMAIN table THEN cmd
    ELSE IF ~StartsWithBang(cmd) /\ (<<"!">> \o cmd) \in DOMAIN table THEN <<"!">> \o cmd
    ELSE <<>>

\* the fallback of a name without a key
DenyUndefined == FALSE
AllowUndefined == TRUE

\* the role tests of check_permission on the allowed roles of the key
RoleTestNoVip(author, allowed_roles) ==
    \/ "everyone" \in allowed_roles
    \/ "moderator" \in allowed_roles /\ author.is_mod
    \/ "subscriber" \in allowed_roles /\ author.is_subscriber
RoleTest(author, allowed_roles) ==
    \/ "everyone" \in allowed_roles
    \/ "moderator" \in allowed_roles /\ author.is_mod
    \/ "subscriber" \in allowed_roles /\ author.is_subscriber
    \/ "vip" \in allowed_roles /\ author.is_vip

\* a check that lets everyone pass
Permitted(author, command_name, table) == TRUE
check_permission(author, command_name, table) ==
    IF author.is_broadcaster THEN TRUE
    ELSE LET cmd == Lower(command_name)
             perm_key == PermKey(cmd, table)
         IN IF perm_key # <<>> THEN RoleTest(author, table[perm_key])
            ELSE AllowUndefined

NoCall == [made |-> FALSE, author |-> [is_broadcaster |-> FALSE, is_mod |-> FALSE,
                                       is_subscriber |-> FALSE, is_vip |-> FALSE],
           command_name |-> <<>>, result |-> FALSE]

\* the native commands registered with the bot, and the triggers commands.json can hold
NativeCommands == {CMD_SR}
CommandSets == SUBSET {CMD_HI, BARE_HI}

\* sync_permissions: every native and custom command without an entry gets one
sync_permissions(table, customs) ==
    [k \in DOMAIN table \cup NativeCommands \cup customs |->
        IF k \in DOMAIN table THEN table[k]
        ELSE IF k \in NativeCommands THEN {"moderator", "broadcaster"}
        ELSE {"everyone"}]

\* permissions.json is loaded (at start, or by the file watcher after an edit) and
\* synced with the commands known at that moment
LoadPermissions(table) ==
    /\ permissions' = sync_permissions(table, custom_commands)
    /\ perm_call' = NoCall
    /\ UNCHANGED <<custom_commands, routeVars, resolverVars, eventVars, dispatchVars, renderVars>>

\* commands.json is loaded (at start, or by the file watcher after an edit)
LoadCommands(cmds) ==
    /\ custom_commands' = cmds
    /\ perm_call' = NoCall
    /\ UNCHANGED <<permissions, routeVars, resolverVars, eventVars, dispatchVars, renderVars>>

\* one call of check_permission(ctx, command_name), for a command that exists
CheckPermission(author, command_name) ==
    /\ command_name \in NativeCommands \cup custom_commands
    /\ perm_call' = [made |-> TRUE, author |-> author, command_name |-> command_name,
                     result |-> check_permission(author, command_name, permissions)]
    /\ UNCHANGED <<custom_commands, permissions, routeVars, resolverVars, eventVars, dispatchVars, renderVars>>

NextPermission ==
    \/ \E table \in PermissionTables : LoadPermissions(table)
    \/ \E cmds \in CommandSets : LoadCommands(cmds)
    \/ \E author \in Authors, command_name \in CheckedNames :
          CheckPermission(author, command_name)

(***************************************************************************)
(* Chat commands: dispatch, cooldown gate, counters and the file watcher   *)
(* (src/main.py, src/engine.py). The event loop runs one task at a time    *)
(* between two awaits; the watchdog observer is a thread of its own and    *)
(* may run between any two lines of the loop's task.                       *)
(***************************************************************************)
MaxDispatch == 2
MaxMessages == 2
MaxTime == 2
MaxBoots == 2
MaxEvents == 2
EPOCH == 5
DEBOUNCE == 1
Disp == 1..MaxDispatch

\* what data/commands.json and data/cooldowns.json can hold, what a chat message
\* can start with, and what an editor can put into data/counts.json
COMMANDS == {CMD_HI, BARE_HI}
CooldownTables == {(CMD_HI :> 2), (CMD_HI :> 1 @@ BARE_HI :> 2)}
FirstWords == {CMD_HI, BARE_HI, KEY_HI_UPPER}
CountEdits == {(BARE_HI :> 0)}
VIEWER == [is_broadcaster |-> FALSE, is_mod |-> FALSE, is_subscriber |-> FALSE,
           is_vip |-> FALSE]

MODERATOR == [is_broadcaster |-> FALSE, is_mod |-> TRUE, is_subscriber |-> FALSE,
              is_vip |-> FALSE]
\* who sends the chat messages
Invokers == {VIEWER, MODERATOR}
\* data/permissions.json: the custom commands are for moderators
PERMISSIONS_FILE == (CMD_HI :> {"moderator"}) @@ (BARE_HI :> {"moderator"}) @@ PERMISSIONS

\* an event_message task: where it stands, the command it matched, who sent the
\* message, and whether an exception of its reply left event_message
NoDispatch == [pc |-> "idle", cmd |-> <<>>, author |-> VIEWER, uncaught |-> FALSE]
Uncaught == [NoDispatch EXCEPT !.uncaught = TRUE]
NoMain == [task |-> 0, line |-> 0]
\* no data/command_aliases.json
NoAliases == <<>>
NoRoute == [line |-> <<>>, content |-> <<>>]
NoManage == [op |-> "none", name |-> <<>>, outcome |-> "none"]
NoWatch == [pc |-> "idle", buf |-> <<>>]
\* how the last call of check_cooldown ended
NoCooldownCall == [made |-> FALSE, raised |-> FALSE, result |-> FALSE]
CooldownReturned(r) == [made |-> TRUE, raised |-> FALSE, result |-> r]
CooldownRaised == [made |-> TRUE, raised |-> TRUE, result |-> FALSE]

\* dict.get(k, default) and d[k] = v
Get(f, k, default) == IF k \in DOMAIN f THEN f[k] ELSE default
Put(f, k, v) == [x \in DOMAIN f \cup {k} |-> IF x = k THEN v ELSE f[x]]

\* the name under which a command is counted: lower-cased, without a leading '!'
Normalize(command_name) ==
    LET cmd == Lower(command_name) IN IF StartsWithBang(cmd) THEN Tail(cmd) ELSE cmd

\* load_counts: the parsed file, or {} when it is missing or cannot be parsed
load_counts(file) == IF file.kind = "json" THEN file.data ELSE <<>>

\* if now - last_used < duration
OnCooldownInclusive(t, last_used, duration) == t - last_used <= duration
OnCooldown(t, last_used, duration) == t - last_used < duration

\* self.cooldown_state[cmd_name] = now
Stamp(state, cmd_name, t) == Put(state, cmd_name, t)

Emit(n) == IF n < MaxEvents THEN n + 1 ELSE n

\* the process starts: Bot.__init__ loads the data files
Boot(cfg, aliases) ==
    /\ ~up
    /\ boots < MaxBoots
    /\ up' = TRUE
    /\ boots' = boots + 1
    /\ custom_commands' = COMMANDS
    /\ permissions' = sync_permissions(PERMISSIONS_FILE, COMMANDS)
    /\ cooldowns' = cfg
    /\ command_aliases' = aliases
    /\ cooldown_state' = <<>>
    /\ counts' = load_counts(counts_file)
    /\ expected' = load_counts(counts_file)
    /\ edited' = {}
    /\ chat' = <<>>
    /\ passes' = <<>>
    /\ cd_call' = NoCooldownCall
    /\ UNCHANGED <<msgs, now, disp, main, counts_file, fs_events, last_modified, watcher,
                   perm_call, renderVars, routed, native, managed, ops, resolverVars,
                   eventVars>>

\* the process ends, at any line
Stop ==
    /\ up
    /\ up' = FALSE
    /\ disp' = [d \in Disp |-> NoDispatch]
    /\ main' = NoMain
    /\ watcher' = NoWatch
    /\ fs_events' = 0
    /\ last_modified' = 0
    /\ cooldowns' = <<>>
    /\ cooldown_state' = <<>>
    /\ counts' = <<>>
    /\ expected' = <<>>
    /\ passes' = <<>>
    /\ cd_call' = NoCooldownCall
    /\ chat' = <<>>
    /\ UNCHANGED <<boots, now, msgs, counts_file, edited, permVars, renderVars, routeVars, resolverVars,
                   eventVars>>

Tick ==
    /\ up
    /\ now < EPOCH + MaxTime
    /\ now' = now + 1
    /\ UNCHANGED <<up, boots, msgs, disp, main, cooldowns, cooldown_state, counts,
                   counts_file, fs_events, last_modified, watcher, cd_call, passes,
                   expected, edited, permVars, chat, renderVars, routeVars, resolverVars, eventVars>>

\* event_message up to its first await (get_context), for a message whose
\* lower-cased first word is a custom command
Arrive(d, word, author) ==
    /\ up
    /\ disp[d].pc = "idle"
    /\ msgs < MaxMessages
    /\ Lower(word) \in custom_commands
    /\ disp' = [disp EXCEPT ![d] = [NoDispatch EXCEPT !.pc = "ctx", !.cmd = Lower(word),
                                                      !.author = author]]
    /\ msgs' = msgs + 1
    /\ UNCHANGED <<up, boots, now, main, cooldowns, cooldown_state, counts, counts_file,
                   fs_events, last_modified, watcher, cd_call, passes, expected, edited,
                   permVars, chat, renderVars, routeVars, resolverVars, eventVars>>

\* get_context has returned: check_permission, then check_cooldown up to its
\* test 'cmd_name not in self.cooldowns'
GateEnter(d) ==
    /\ up
    /\ main = NoMain
    /\ disp[d].pc = "ctx"
    /\ LET cmd == disp[d].cmd
       IN IF ~check_permission(disp[d].author, cmd, permissions)
          THEN /\ disp' = [disp EXCEPT ![d] = NoDispatch]
               /\ UNCHANGED <<main, cd_call>>
          ELSE IF cmd \notin DOMAIN cooldowns
          THEN /\ disp' = [disp EXCEPT ![d].pc = "sync"]
               /\ main' = [task |-> d, line |-> 57]
               /\ cd_call' = CooldownReturned(FALSE)
          ELSE /\ disp' = [disp EXCEPT ![d].pc = "sync"]
               /\ main' = [task |-> d, line |-> 196]
               /\ UNCHANGED cd_call
    /\ UNCHANGED <<passes, up, boots, now, msgs, cooldowns, cooldown_state, counts, counts_file,
                   fs_events, last_modified, watcher, expected, edited, permVars,
                   chat, renderVars, routeVars, resolverVars, eventVars>>

\* check_cooldown from 'duration = self.cooldowns[cmd_name]' to its return
GateDecide(d) ==
    /\ main = [task |-> d, line |-> 196]
    /\ LET cmd == disp[d].cmd
           last_used == Get(cooldown_state, cmd, 0)
       IN IF cmd \notin DOMAIN cooldowns
          THEN /\ cd_call' = CooldownRaised
               /\ disp' = [disp EXCEPT ![d] = NoDispatch]
               /\ main' = NoMain
               /\ UNCHANGED <<cooldown_state, passes>>
          ELSE IF OnCooldown(now, last_used, cooldowns[cmd])
          THEN /\ cd_call' = CooldownReturned(TRUE)
               /\ disp' = [disp EXCEPT ![d] = NoDispatch]
               /\ main' = NoMain
               /\ UNCHANGED <<cooldown_state, passes>>
          ELSE /\ cooldown_state' = Stamp(cooldown_state, cmd, now)
               /\ cd_call' = CooldownReturned(FALSE)
               /\ passes' = Put(passes, cmd, now)
               /\ main' = [task |-> d, line |-> 57]
               /\ UNCHANGED disp
    /\ UNCHANGED <<up, boots, now, msgs, cooldowns, counts, counts_file, fs_events,
                   last_modified, watcher, expected, edited, permVars, chat, renderVars,
                   routeVars, resolverVars, eventVars>>

\* increment_count: if cmd not in self.counts: self.counts[cmd] = 0
Inc57(d) ==
    /\ main = [task |-> d, line |-> 57]
    /\ LET cmd == Normalize(disp[d].cmd)
       IN /\ counts' = IF cmd \in DOMAIN counts THEN counts ELSE Put(counts, cmd, 0)
          /\ expected' = Put(expected, cmd, Get(expected, cmd, 0) + 1)
    /\ main' = [main EXCEPT !.line = 59]
    /\ UNCHANGED <<up, boots, now, msgs, disp, cooldowns, cooldown_state, counts_file,
                   fs_events, last_modified, watcher, cd_call, passes, edited,
                   permVars, chat, renderVars, routeVars, resolverVars, eventVars>>

\* increment_count: self.counts[cmd] += 1 (KeyError when the dict now lacks cmd)
Inc59(d) ==
    /\ main = [task |-> d, line |-> 59]
    /\ LET cmd == Normalize(disp[d].cmd)
       IN IF cmd \in DOMAIN counts
          THEN /\ counts' = Put(counts, cmd, counts[cmd] + 1)
               /\ main' = [main EXCEPT !.line = 45]
               /\ UNCHANGED disp
          ELSE /\ disp' = [disp EXCEPT ![d] = NoDispatch]
               /\ main' = NoMain
               /\ UNCHANGED counts
    /\ UNCHANGED <<expected, up, boots, now, msgs, cooldowns, cooldown_state, counts_file, fs_events,
                   last_modified, watcher, cd_call, passes, edited, permVars,
                   chat, renderVars, routeVars, resolverVars, eventVars>>

\* save_counts: open(self.counts_file, 'w') truncates the file
Save45(d) ==
    /\ main = [task |-> d, line |-> 45]
    /\ counts_file' = [kind |-> "partial", data |-> <<>>]
    /\ fs_events' = Emit(fs_events)
    /\ main' = [main EXCEPT !.line = 46]
    /\ UNCHANGED <<up, boots, now, msgs, disp, cooldowns, cooldown_state, counts,
                   last_modified, watcher, cd_call, passes, expected, edited, permVars,
                   chat, renderVars, routeVars, resolverVars, eventVars>>

\* save_counts: json.dump(self.counts, f) and the close of the file
Save46(d) ==
    /\ main = [task |-> d, line |-> 46]
    /\ counts_file' = [kind |-> "json", data |-> counts]
    /\ fs_events' = Emit(fs_events)
    /\ main' = [main EXCEPT !.line = 61]
    /\ UNCHANGED <<up, boots, now, msgs, disp, cooldowns, cooldown_state, counts,
                   last_modified, watcher, cd_call, passes, expected, edited, permVars,
                   chat, renderVars, routeVars, resolverVars, eventVars>>

\* increment_count: return self.counts[cmd]; event_message then awaits get_context
Inc61(d) ==
    /\ main = [task |-> d, line |-> 61]
    /\ disp' = [disp EXCEPT ![d] = IF Normalize(disp[d].cmd) \in DOMAIN counts
                                   THEN [disp[d] EXCEPT !.pc = "reply"]
                                   ELSE NoDispatch]
    /\ main' = NoMain
    /\ UNCHANGED <<up, boots, now, msgs, cooldowns, cooldown_state, counts, counts_file,
                   fs_events, last_modified, watcher, cd_call, passes, expected, edited,
                   permVars, chat, renderVars, routeVars, resolverVars, eventVars>>

\* on_modified for counts.json: the debounce, then load_counts is entered
WatchEvent ==
    /\ up
    /\ fs_events > 0
    /\ watcher = NoWatch
    /\ fs_events' = fs_events - 1
    /\ IF last_modified # 0 /\ now - last_modified < DEBOUNCE
       THEN UNCHANGED <<last_modified, watcher>>
       ELSE /\ last_modified' = now
            /\ watcher' = [pc |-> "open", buf |-> <<>>]
    /\ UNCHANGED <<up, boots, now, msgs, disp, main, cooldowns, cooldown_state, counts,
                   counts_file, cd_call, passes, expected, edited, permVars,
                   chat, renderVars, routeVars, resolverVars, eventVars>>

\* load_counts: json.load(f); a missing or unparsable file gives self.counts = {}
WatchRead ==
    /\ watcher.pc = "open"
    /\ IF counts_file.kind = "json"
       THEN /\ watcher' = [pc |-> "assign", buf |-> counts_file.data]
            /\ UNCHANGED counts
       ELSE /\ watcher' = NoWatch
            /\ counts' = <<>>
    /\ UNCHANGED <<up, boots, now, msgs, disp, main, cooldowns, cooldown_state,
                   counts_file, fs_events, last_modified, cd_call, passes, expected,
                   edited, permVars, chat, renderVars, routeVars, resolverVars, eventVars>>

\* load_counts: self.counts = <what was read>
WatchAssign ==
    /\ watcher.pc = "assign"
    /\ counts' = watcher.buf
    /\ watcher' = NoWatch
    /\ UNCHANGED <<up, boots, now, msgs, disp, main, cooldowns, cooldown_state,
                   counts_file, fs_events, last_modified, cd_call, passes, expected,
                   edited, permVars, chat, renderVars, routeVars, resolverVars, eventVars>>

\* counts.json is edited from outside the bot (once per run of the process)
EditCounts(data) ==
    /\ up
    /\ "counts.json" \notin edited
    /\ counts_file' = [kind |-> "json", data |-> data]
    /\ fs_events' = Emit(fs_events)
    /\ edited' = edited \cup {"counts.json"}
    /\ UNCHANGED <<up, boots, now, msgs, disp, main, cooldowns, cooldown_state, counts,
                   last_modified, watcher, cd_call, passes, expected, permVars,
                   chat, renderVars, routeVars, resolverVars, eventVars>>

\* cooldowns.json is edited from outside (once per run); on_modified calls
\* load_cooldowns, which starts with self.cooldowns = {}
ReloadCooldowns(cfg) ==
    /\ up
    /\ watcher = NoWatch
    /\ "cooldowns.json" \notin edited
    /\ edited' = edited \cup {"cooldowns.json"}
    /\ cooldowns' = <<>>
    /\ watcher' = [pc |-> "cooldowns", buf |-> cfg]
    /\ UNCHANGED <<up, boots, now, msgs, disp, main, cooldown_state, counts, counts_file,
                   fs_events, last_modified, cd_call, passes, expected, permVars,
                   chat, renderVars, routeVars, resolverVars, eventVars>>

\* load_cooldowns: self.cooldowns = json.load(f)
WatchCooldowns ==
    /\ watcher.pc = "cooldowns"
    /\ cooldowns' = watcher.buf
    /\ watcher' = NoWatch
    /\ UNCHANGED <<up, boots, now, msgs, disp, main, cooldown_state, counts, counts_file,
                   fs_events, last_modified, cd_call, passes, expected, edited, permVars,
                   chat, renderVars, routeVars, resolverVars, eventVars>>

(***************************************************************************)
(* The template engine (src/engine.py): process and process_response.      *)
(* A text is the sequence of its characters.                               *)
(***************************************************************************)
MaxLen == 4
MaxRepeat == 11
max_loops == 10

Alphabet == {"$", "(", ")", "{", "}", " ", "h"}
RECURSIVE Texts(_)
Texts(n) ==
    IF n = 0 THEN {<<>>}
    ELSE Texts(n - 1) \cup {Append(t, c) : t \in {x \in Texts(n - 1) : Len(x) = n - 1}, c \in Alphabet}

RECURSIVE Repeat(_, _)
Repeat(t, n) == IF n = 0 THEN <<>> ELSE t \o Repeat(t, n - 1)

T_H == <<"$", "(", "h", ")">>
T_USER == <<"$", "(", "u", "s", "e", "r", ")">>
T_TOUSER == <<"$", "(", "t", "o", "u", "s", "e", "r", ")">>
T_QUERY == <<"$", "(", "q", "u", "e", "r", "y", ")">>
T_COUNT == <<"$", "(", "c", "o", "u", "n", "t", ")">>
T_EVAL == <<"$", "(", "e", "v", "a", "l", " ", "h", ")">>
T_URLFETCH == <<"$", "(", "u", "r", "l", "f", "e", "t", "c", "h", " ", "h", ")">>
T_UPTIME == <<"$", "(", "u", "p", "t", "i", "m", "e", " ", "h", ")">>
T_NESTED == <<"$", "(", "e", "v", "a", "l", " ">> \o T_COUNT \o <<")">>
T_FIELD == <<"{", "u", "s", "e", "r", "}", " ">> \o T_USER
T_OPEN == <<"h", " ", "$", "(", "u", "s", "e", "r">>
T_UNKNOWN == <<"$", "(", "h", " ", "h", ")">>
T_UPTIME_BARE == <<"$", "(", "u", "p", "t", "i", "m", "e", ")">>
T_EVAL_USER == T_EVAL \o <<" ">> \o T_USER
LongTemplates ==
    {T_USER, T_TOUSER, T_QUERY, T_COUNT, T_EVAL, T_URLFETCH, T_UPTIME, T_NESTED, T_FIELD,
     T_OPEN, T_USER \o T_OPEN, Repeat(T_H, MaxRepeat), T_UNKNOWN,
     T_USER \o <<" ">> \o T_UNKNOWN \o <<" ">> \o T_USER, T_UPTIME_BARE, T_EVAL_USER}
Templates == Texts(MaxLen) \cup LongTemplates

BOB == <<"b", "o", "b">>
UNKNOWN == <<"U", "n", "k", "n", "o", "w", "n">>
KEY_USER == <<"u", "s", "e", "r">>
OK_TEXT == <<"o", "k">>
ERROR_TEXT == <<"[", "E", "r", "r", "o", "r", "]">>
\* what a fetch, an evaluation or a stream lookup can answer: a text, a text
\* that holds a directive, or the bracketed message of a caught exception
Answers == {OK_TEXT, T_H, ERROR_TEXT}

VariableSets == {<<>>, (<<"h">> :> BOB), (KEY_USER :> BOB)}
ArgLists == {<<>>, <<T_TOUSER>>, <<<<"h">>, <<"h">>>>, <<T_COUNT>>}
NoName == <<>>
Contexts ==
    [author : {BOB}, args : ArgLists, command_name : {NoName, <<"!", "h">>}]
SimpleContext(author) == [author |-> author, args |-> <<>>, command_name |-> NoName]
CountTables == {<<>>, (<<"h">> :> 2)}

DecimalDigits == <<"0", "1", "2", "3", "4", "5", "6", "7", "8", "9">>
RECURSIVE ToStr(_)
ToStr(n) ==
    IF n < 10 THEN <<DecimalDigits[n + 1]>>
    ELSE ToStr(n \div 10) \o <<DecimalDigits[(n % 10) + 1]>>

\* the first index from i on that holds one of chars, 0 when none
RECURSIVE FirstFrom(_, _, _)
FirstFrom(t, i, chars) ==
    IF i > Len(t) THEN 0 ELSE IF t[i] \in chars THEN i ELSE FirstFrom(t, i + 1, chars)

Ok(text) == [err |-> "None", text |-> text]
Err(name) == [err |-> name, text |-> <<>>]
Then(prefix, r) == IF r.err = "None" THEN Ok(prefix \o r.text) ELSE r

\* template.format(**variables): literal text up to the next brace is copied,
\* '{{' and '}}' give one brace, '{name}' gives variables[name]
RECURSIVE Format(_, _)
Format(t, variables) ==
    LET b == FirstFrom(t, 1, {"{", "}"})
        rest == SubSeq(t, b + 2, Len(t))
        j == FirstFrom(t, b + 1, {"{", "}"})
        name == SubSeq(t, b + 1, j - 1)
    IN IF b = 0 THEN Ok(t)
       ELSE IF b < Len(t) /\ t[b + 1] = t[b]
       THEN Then(SubSeq(t, 1, b), Format(rest, variables))
       ELSE IF t[b] = "}" \/ j = 0 \/ t[j] = "{" THEN Err("ValueError")
       ELSE IF name = <<>> THEN Err("IndexError")
       ELSE IF name \notin DOMAIN variables THEN Err("KeyError")
       ELSE Then(SubSeq(t, 1, b - 1) \o variables[name],
                 Format(SubSeq(t, j + 1, Len(t)), variables))

\* current_text.find('$(')
RECURSIVE FindParen(_, _)
FindParen(t, i) ==
    IF i > Len(t) THEN 0 ELSE IF t[i] = "(" THEN i ELSE FindParen(t, i + 1)
RECURSIVE FindDirective(_, _)
FindDirective(t, i) ==
    IF i >= Len(t) THEN 0
    ELSE IF t[i] = "$" /\ t[i + 1] = "(" THEN i ELSE FindDirective(t, i + 1)

\* the index of the parenthesis that closes the directive, 0 when there is none
RECURSIVE MatchParen(_, _, _)
MatchParen(t, i, paren_count) ==
    IF i > Len(t) THEN 0
    ELSE IF t[i] = "(" THEN MatchParen(t, i + 1, paren_count + 1)
    ELSE IF t[i] = ")"
    THEN IF paren_count - 1 = 0 THEN i ELSE MatchParen(t, i + 1, paren_count - 1)
    ELSE MatchParen(t, i + 1, paren_count)

\* inner_content.split(' ', 1)
Split(inner) ==
    LET k == FirstFrom(inner, 1, {" "})
    IN IF k = 0 THEN [cmd |-> inner, arg |-> <<>>]
       ELSE [cmd |-> SubSeq(inner, 1, k - 1), arg |-> SubSeq(inner, k + 1, Len(inner))]

\* " ".join(args)
RECURSIVE Join(_)
Join(args) ==
    IF args = <<>> THEN <<>>
    ELSE IF Len(args) = 1 THEN args[1] ELSE args[1] \o <<" ">> \o Join(Tail(args))

get_count(table, command_name) == Get(table, Normalize(command_name), 0)

\* the first index at which tag occurs in t, 0 when it does not
RECURSIVE Find(_, _, _)
Find(t, tag, i) ==
    IF i + Len(tag) - 1 > Len(t) THEN 0
    ELSE IF SubSeq(t, i, i + Len(tag) - 1) = tag THEN i ELSE Find(t, tag, i + 1)

\* current_text.replace(full_tag, replacement, 1)
ReplaceFirst(t, tag, replacement) ==
    LET i == Find(t, tag, 1)
    IN IF i = 0 THEN t
       ELSE SubSeq(t, 1, i - 1) \o replacement \o SubSeq(t, i + Len(tag), Len(t))

\* replacement = full_tag: a directive that no branch resolves stays as it is
UnresolvedBlank(full_tag) == <<>>
Unresolved(full_tag) == full_tag

\* the text without its '$' characters
RECURSIVE Undollared(_)
Undollared(t) ==
    IF t = <<>> THEN <<>>
    ELSE IF Head(t) = "$" THEN Undollared(Tail(t))
    ELSE <<Head(t)>> \o Undollared(Tail(t))

\* args = getattr(ctx, 'args', []): the words of the invoker, as they were typed
ArgsSanitized(ctx) == [i \in DOMAIN ctx.args |-> Undollared(ctx.args[i])]
Args(ctx) == ctx.args

\* the branches of process_response that choose the replacement of a directive
Replacement(cmd, arg, full_tag, ctx, table, answer) ==
    IF cmd = <<"u", "s", "e", "r">> THEN ctx.author
    ELSE IF cmd = <<"t", "o", "u", "s", "e", "r">>
    THEN IF Args(ctx) # <<>> THEN Args(ctx)[1] ELSE ctx.author
    ELSE IF cmd = <<"q", "u", "e", "r", "y">> THEN Join(Args(ctx))
    ELSE IF cmd = <<"c", "o", "u", "n", "t">>
    THEN IF ctx.command_name # NoName THEN ToStr(get_count(table, ctx.command_name))
         ELSE <<"0">>
    ELSE IF cmd # <<>> /\ arg = <<>>
    THEN IF get_count(table, cmd) > 0 \/ cmd \in DOMAIN table
         THEN ToStr(get_count(table, cmd))
         ELSE Unresolved(full_tag)
    ELSE IF cmd \in {<<"u", "r", "l", "f", "e", "t", "c", "h">>, <<"e", "v", "a", "l">>,
                     <<"u", "p", "t", "i", "m", "e">>}
    THEN answer
    ELSE Unresolved(full_tag)

NoRender ==
    [pc |-> "idle", entry |-> "none", template |-> <<>>, text |-> <<>>,
     ctx |-> SimpleContext(<<>>), loops |-> 0, subs |-> 0, ended |-> "none",
     raised |-> "None"]

Scanning(entry, template, text, ctx) ==
    [NoRender EXCEPT !.pc = "scan", !.entry = entry, !.template = template,
                     !.text = text, !.ctx = ctx]
Rendered(entry, template, text, raised) ==
    [NoRender EXCEPT !.pc = "done", !.entry = entry, !.template = template,
                     !.text = text, !.raised = raised]

\* engine.load_counts at the start of the process
LoadCounts(data) ==
    /\ ~up
    /\ render.pc = "idle"
    /\ counts' = data
    /\ UNCHANGED <<up, boots, now, msgs, disp, main, cooldowns, cooldown_state,
                   counts_file, fs_events, last_modified, watcher, cd_call, passes,
                   expected, edited, chat, permVars, renderVars, routeVars, resolverVars, eventVars>>

\* process(template, variables) up to its call of process_response
Process(template, variables) ==
    /\ render.pc = "idle"
    /\ LET f == IF variables # <<>> THEN Format(template, variables) ELSE Ok(template)
           formatted == IF f.err \in {"KeyError", "ValueError"} THEN template ELSE f.text
       IN render' =
            IF f.err = "IndexError" THEN Rendered("process", template, <<>>, "IndexError")
            ELSE IF FindDirective(formatted, 1) # 0
            THEN Scanning("process", template, formatted,
                          SimpleContext(Get(variables, KEY_USER, UNKNOWN)))
            ELSE Rendered("process", template, formatted, "None")
    /\ UNCHANGED <<permVars, dispatchVars, routeVars, resolverVars, eventVars>>

\* Bot.send_response from its format pass on: only KeyError is caught, and
\* process_response is called whatever the text holds
SendResponse(template, variables, ctx) ==
    /\ render.pc = "idle"
    /\ LET f == Format(template, variables)
           formatted == IF f.err = "KeyError" THEN template ELSE f.text
       IN render' =
            IF f.err \in {"ValueError", "IndexError"}
            THEN Rendered("send_response", template, <<>>, f.err)
            ELSE Scanning("send_response", template, formatted, ctx)
    /\ UNCHANGED <<permVars, dispatchVars, routeVars, resolverVars, eventVars>>

\* process_response(response_text, ctx) up to its loop
ProcessResponse(response_text, ctx) ==
    /\ render.pc = "idle"
    /\ render' = Scanning("process_response", response_text, response_text, ctx)
    /\ UNCHANGED <<permVars, dispatchVars, routeVars, resolverVars, eventVars>>

\* the first directive of a text: where it starts and ends, its tag, name and
\* argument; matched is FALSE when the text has no complete directive
FirstDirective(t) ==
    LET start_idx == FindDirective(t, 1)
        end_idx == IF start_idx = 0 THEN 0 ELSE MatchParen(t, start_idx + 1, 0)
        parts == Split(SubSeq(t, start_idx + 2, end_idx - 1))
    IN IF end_idx = 0
       THEN [matched |-> FALSE, tag |-> <<>>, cmd |-> <<>>, arg |-> <<>>]
       ELSE [matched |-> TRUE, tag |-> SubSeq(t, start_idx, end_idx), cmd |-> parts.cmd,
             arg |-> parts.arg]
CtxDirectives ==
    {<<"u", "s", "e", "r">>, <<"t", "o", "u", "s", "e", "r">>, <<"q", "u", "e", "r", "y">>,
     <<"c", "o", "u", "n", "t">>}
AwaitedDirectives ==
    {<<"u", "r", "l", "f", "e", "t", "c", "h">>, <<"e", "v", "a", "l">>,
     <<"u", "p", "t", "i", "m", "e">>}
\* an unknown name with arguments, or a bare name that no counter bears
CannotResolve(d, table) ==
    /\ d.matched
    /\ d.cmd \notin CtxDirectives \cup AwaitedDirectives
    /\ \/ d.arg # <<>>
       \/ d.cmd = <<>>
       \/ d.cmd \notin DOMAIN table /\ Get(table, Normalize(d.cmd), 0) = 0

\* for _ in range(max_loops): the body runs while the count of iterations is
\* in the range
InRangeInclusive(loops) == loops <= max_loops
InRange(loops) == loops < max_loops

\* current_text.find('$('): every iteration searches from the start of the text
ScanPastUnresolved(t, table) ==
    LET d == FirstDirective(t)
    IN IF CannotResolve(d, table) THEN Find(t, d.tag, 1) + Len(d.tag) ELSE 1
ScanStart(t, table) == 1

\* the awaited branches catch every exception of their call (except Exception)
\* and put its bracketed message in place of the directive
RaisesOnError(answer) == answer = ERROR_TEXT
Raises(answer) == FALSE

\* one iteration of the loop; the function returns when the loop breaks or its
\* range is used up
ScanStep(answer) ==
    /\ render.pc = "scan"
    /\ InRange(render.loops)
    /\ LET current_text == render.text
           start_idx == FindDirective(current_text, ScanStart(current_text, counts))
           end_idx == MatchParen(current_text, start_idx + 1, 0)
           full_tag == SubSeq(current_text, start_idx, end_idx)
           parts == Split(SubSeq(current_text, start_idx + 2, end_idx - 1))
           replacement == Replacement(parts.cmd, parts.arg, full_tag, render.ctx, counts,
                                      answer)
           loops == render.loops + 1
       IN render' =
            IF start_idx = 0
            THEN [render EXCEPT !.pc = "done", !.loops = loops, !.ended = "no directive"]
            ELSE IF end_idx = 0
            THEN [render EXCEPT !.pc = "done", !.loops = loops, !.ended = "unmatched"]
            ELSE IF parts.cmd \in AwaitedDirectives /\ parts.arg # <<>> /\ Raises(answer)
            THEN [render EXCEPT !.pc = "done", !.loops = loops, !.ended = "raised",
                                !.raised = "Exception"]
            ELSE [render EXCEPT !.text = ReplaceFirst(current_text, full_tag, replacement),
                                !.loops = loops, !.subs = @ + 1,
                                !.pc = IF InRange(loops) THEN "scan" ELSE "done",
                                !.ended = IF InRange(loops) THEN "none" ELSE "max_loops"]
    /\ UNCHANGED <<permVars, dispatchVars, routeVars, resolverVars, eventVars>>

\* the caller takes the result
Return ==
    /\ render.pc = "done"
    /\ render' = NoRender
    /\ UNCHANGED <<permVars, dispatchVars, routeVars, resolverVars, eventVars>>

NextRender ==
    \/ \E data \in CountTables : LoadCounts(data)
    \/ /\ render.pc = "idle"
       /\ \E template \in Templates, variables \in VariableSets :
              Process(template, variables)
    \/ /\ render.pc = "idle"
       /\ \E response_text \in Templates, ctx \in Contexts :
              ProcessResponse(response_text, ctx)
    \/ /\ render.pc = "idle"
       /\ \E template \in Templates, variables \in VariableSets,
             ctx \in {c \in Contexts : c.command_name = NoName} :
              SendResponse(template, variables, ctx)
    \/ \E answer \in Answers : ScanStep(answer)
    \/ Return

(***************************************************************************)
(* The reply of a custom command (src/main.py 1006-1024, 1044-1062)        *)
(***************************************************************************)
T_GREET == <<"H", "i", " ", "{", "u", "s", "e", "r", "}", "!", " ">>
\* data/commands.json: the stored response of each custom command
RESPONSES == (CMD_HI :> T_GREET \o T_COUNT) @@ (BARE_HI :> T_COUNT)

\* the response every !addcom of the model gives
ADDED_RESPONSE == OK_TEXT

\* ContextWrapper(ctx, command_name=cmd_name): every invoker is named bob
ContextWrapper(cmd_name) == [author |-> BOB, args |-> <<>>, command_name |-> cmd_name]

\* process_response on a text whose directives need no await: the whole loop
\* runs without leaving the event loop
RECURSIVE process_response(_, _, _, _)
process_response(current_text, ctx, table, loops) ==
    LET d == FirstDirective(current_text)
    IN IF ~InRange(loops) \/ ~d.matched THEN current_text
       ELSE process_response(ReplaceFirst(current_text, d.tag,
                                          Replacement(d.cmd, d.arg, d.tag, ctx, table,
                                                      ERROR_TEXT)),
                             ctx, table, loops + 1)

\* except Exception around process_response and channel.send
ReplyEscapesUncaught(failed) == failed
ReplyEscapes(failed) == FALSE

\* get_context has returned: the stored template is rendered and sent, and
\* event_message returns; sent is FALSE when channel.send raises
Reply(d, sent) ==
    /\ disp[d].pc = "reply"
    /\ main = NoMain
    /\ LET response_template == Get(RESPONSES, disp[d].cmd, ADDED_RESPONSE)
           engine_ctx == ContextWrapper(disp[d].cmd)
           reply == process_response(response_template, engine_ctx, counts, 0)
       IN chat' = IF sent THEN Append(chat, reply) ELSE chat
    /\ disp' = [disp EXCEPT ![d] = IF ReplyEscapes(~sent) THEN Uncaught ELSE NoDispatch]
    /\ UNCHANGED <<up, boots, now, msgs, main, cooldowns, cooldown_state, counts,
                   counts_file, fs_events, last_modified, watcher, cd_call, passes,
                   expected, edited, permVars, renderVars, routeVars, resolverVars, eventVars>>

NextDispatch ==
    \/ \E cfg \in CooldownTables : Boot(cfg, NoAliases)
    \/ Stop
    \/ Tick
    \/ \E d \in Disp, word \in FirstWords, author \in Invokers : Arrive(d, word, author)
    \/ \E d \in Disp : GateEnter(d)
    \/ \E d \in Disp : GateDecide(d)
    \/ \E d \in Disp : Inc57(d)
    \/ \E d \in Disp : Inc59(d)
    \/ \E d \in Disp : Save45(d)
    \/ \E d \in Disp : Save46(d)
    \/ \E d \in Disp : Inc61(d)
    \/ \E d \in Disp, sent \in BOOLEAN : Reply(d, sent)
    \/ WatchEvent
    \/ WatchRead
    \/ WatchAssign
    \/ \E data \in CountEdits : EditCounts(data)
    \/ \E cfg \in CooldownTables : ReloadCooldowns(cfg)
    \/ WatchCooldowns

(***************************************************************************)
(* Routing of a chat line (src/main.py 958-1066), the alias table and the  *)
(* commands that manage aliases and custom commands                        *)
(***************************************************************************)
MaxOps == 2

A_TIP == <<"!", "t", "i", "p">>
A_D == <<"!", "d">>
M_DONATE == <<"!", "d", "o", "n", "a", "t", "e">>
L_TIP_5 == <<"!", "T", "i", "p", " ", "5">>
L_TIPSTER == <<"!", "t", "i", "p", "s", "t", "e", "r">>
L_YO == <<"y", "o">>
\* what a chatter can type
Lines == {L_TIP_5, A_TIP, L_TIPSTER, A_D, CMD_HI, BARE_HI, L_YO, CMD_SR}
\* data/command_aliases.json at the start: absent, or one alias written by hand
AliasFiles == {NoAliases, <<[main |-> M_DONATE, aliases |-> <<<<"!", "T", "i", "p">>>>]>>}
\* the arguments of the alias commands and of the custom command commands
TypedMains == {M_DONATE, BARE_HI}
TypedAliases == {A_TIP, <<"!", "T", "i", "p">>, <<"d">>}
TypedTriggers == {CMD_SR, <<"s", "r">>, KEY_HI_UPPER}
\* Bot.commands: the native commands by name, without the prefix
commands == {<<"s", "r">>}

\* str.startswith and content.split(' ')[0]
StartsWith(s, prefix) == Len(prefix) <= Len(s) /\ SubSeq(s, 1, Len(prefix)) = prefix
FirstWord(s) ==
    IF \E i \in 1..Len(s) : s[i] = " "
    THEN SubSeq(s, 1, (CHOOSE i \in 1..Len(s) : s[i] = " " /\ \A j \in 1..(i - 1) : s[j] # " ") - 1)
    ELSE s
WithBang(name) == IF StartsWithBang(name) THEN name ELSE <<"!">> \o name

\* the test of one alias against the line
AliasPrefixMatches(content, alias) == StartsWith(Lower(content), Lower(alias))
AliasMatches(content, alias) ==
    \/ Lower(content) = Lower(alias)
    \/ StartsWith(Lower(content), Lower(alias) \o <<" ">>)

\* the first alias of a list that matches the line (0: none)
FirstAlias(content, aliases) ==
    IF \E j \in 1..Len(aliases) : AliasMatches(content, aliases[j])
    THEN CHOOSE j \in 1..Len(aliases) :
             /\ AliasMatches(content, aliases[j])
             /\ \A k \in 1..(j - 1) : ~AliasMatches(content, aliases[k])
    ELSE 0
\* the loops over command_aliases.items() and the rewrite of the content
AliasRewrite(table, content) ==
    IF \E i \in 1..Len(table) : FirstAlias(content, table[i].aliases) # 0
    THEN LET i == CHOOSE i \in 1..Len(table) :
                      /\ FirstAlias(content, table[i].aliases) # 0
                      /\ \A k \in 1..(i - 1) : FirstAlias(content, table[k].aliases) = 0
             matched_alias == table[i].aliases[FirstAlias(content, table[i].aliases)]
             matched_main_cmd == table[i].main
         IN matched_main_cmd \o SubSeq(content, Len(matched_alias) + 1, Len(content))
    ELSE content

\* if is_prefixed: await self.handle_commands(message)
HandleAlways(is_prefixed) == TRUE
HandleNative(is_prefixed) == is_prefixed

\* event_message up to its first await, for any line: the alias rewrite, the
\* lookup of the first word, and the hand-over to the native commands
RouteLine(d, line, author) ==
    /\ up
    /\ disp[d].pc = "idle"
    /\ msgs < MaxMessages
    /\ LET is_prefixed == StartsWithBang(line)
           content == IF is_prefixed THEN AliasRewrite(command_aliases, line) ELSE line
           cmd_name == Lower(FirstWord(content))
       IN /\ routed' = [line |-> line, content |-> content]
          /\ IF cmd_name \in custom_commands
             THEN /\ disp' = [disp EXCEPT ![d] = [NoDispatch EXCEPT !.pc = "ctx",
                                                                    !.cmd = cmd_name,
                                                                    !.author = author]]
                  /\ UNCHANGED native
             ELSE IF HandleNative(is_prefixed)
             THEN /\ native' = Append(native, content)
                  /\ UNCHANGED disp
             ELSE UNCHANGED <<disp, native>>
    /\ msgs' = msgs + 1
    /\ UNCHANGED <<up, boots, now, main, cooldowns, cooldown_state, counts, counts_file,
                   fs_events, last_modified, watcher, cd_call, passes, expected, edited,
                   chat, command_aliases, managed, ops, permVars, renderVars,
                   resolverVars, eventVars>>

\* the alias table as a dict in insertion order
AliasExistsNever(table, alias_name) == FALSE
AliasExists(table, alias_name) ==
    \E i \in 1..Len(table) :
        \E j \in 1..Len(table[i].aliases) : Lower(table[i].aliases[j]) = Lower(alias_name)
KeyIndex(table, key) ==
    IF \E i \in 1..Len(table) : table[i].main = key
    THEN CHOOSE i \in 1..Len(table) : table[i].main = key
    ELSE 0
HoldsAlias(entry, alias_name) ==
    \E j \in 1..Len(entry.aliases) : Lower(entry.aliases[j]) = Lower(alias_name)
\* the first main command that holds the alias loses it, and goes when it
\* has no alias left
RemoveAlias(table, alias_name) ==
    IF \E i \in 1..Len(table) : HoldsAlias(table[i], alias_name)
    THEN LET i == CHOOSE i \in 1..Len(table) :
                      /\ HoldsAlias(table[i], alias_name)
                      /\ \A k \in 1..(i - 1) : ~HoldsAlias(table[k], alias_name)
             rest == SelectSeq(table[i].aliases, LAMBDA a : Lower(a) # Lower(alias_name))
         IN IF rest = <<>>
            THEN SubSeq(table, 1, i - 1) \o SubSeq(table, i + 1, Len(table))
            ELSE [table EXCEPT ![i].aliases = rest]
    ELSE table
AppendAlias(table, main_command, alias_name) ==
    LET with_key == IF KeyIndex(table, Lower(main_command)) = 0
                    THEN Append(table, [main |-> Lower(main_command), aliases |-> <<>>])
                    ELSE table
        i == KeyIndex(with_key, Lower(main_command))
    IN [with_key EXCEPT ![i].aliases = Append(@, Lower(alias_name))]

Managed(op, name, outcome) == [op |-> op, name |-> name, outcome |-> outcome]

\* cmd_alias_manage, action 'add'
AddAlias(main_typed, alias_typed) ==
    /\ up
    /\ ops < MaxOps
    /\ LET main_command == WithBang(main_typed)
           alias_name == WithBang(alias_typed)
       IN IF AliasExists(command_aliases, alias_name)
          THEN /\ managed' = Managed("addalias", alias_name, "exists")
               /\ UNCHANGED command_aliases
          ELSE /\ command_aliases' = AppendAlias(command_aliases, main_command, alias_name)
               /\ managed' = Managed("addalias", alias_name, "added")
    /\ ops' = ops + 1
    /\ UNCHANGED <<routed, native, permVars, dispatchVars, renderVars, resolverVars, eventVars>>

\* cmd_alias_manage, actions 'del', 'delete', 'remove'
DelAlias(alias_typed) ==
    /\ up
    /\ ops < MaxOps
    /\ LET alias_name == WithBang(alias_typed)
       IN /\ command_aliases' = RemoveAlias(command_aliases, alias_name)
          /\ managed' = Managed("delalias", alias_name,
                                IF AliasExists(command_aliases, alias_name) THEN "deleted"
                                ELSE "not found")
    /\ ops' = ops + 1
    /\ UNCHANGED <<routed, native, permVars, dispatchVars, renderVars, resolverVars, eventVars>>

\* cmd_alias_manage, action 'edit'
EditAlias(main_typed, alias_typed) ==
    /\ up
    /\ ops < MaxOps
    /\ LET main_command == WithBang(main_typed)
           alias_name == WithBang(alias_typed)
       IN /\ command_aliases' = AppendAlias(RemoveAlias(command_aliases, alias_name),
                                           main_command, alias_name)
          /\ managed' = Managed("editalias", alias_name, "updated")
    /\ ops' = ops + 1
    /\ UNCHANGED <<routed, native, permVars, dispatchVars, renderVars, resolverVars, eventVars>>

\* cmd_manage, action 'add': the test against the native commands, the store
\* under the lower-cased trigger, sync_permissions
AddCom(cmd_trigger) ==
    /\ up
    /\ ops < MaxOps
    /\ IF cmd_trigger \in commands
       THEN /\ managed' = Managed("addcom", cmd_trigger, "native")
            /\ UNCHANGED <<custom_commands, permissions>>
       ELSE /\ custom_commands' = custom_commands \cup {Lower(cmd_trigger)}
            /\ permissions' = sync_permissions(permissions, custom_commands')
            /\ managed' = Managed("addcom", cmd_trigger, "added")
    /\ ops' = ops + 1
    /\ UNCHANGED <<perm_call, command_aliases, routed, native, dispatchVars, renderVars,
                   resolverVars, eventVars>>

\* cmd_manage, actions 'del', 'delete', 'remove'
DelCom(cmd_trigger) ==
    /\ up
    /\ ops < MaxOps
    /\ custom_commands' = custom_commands \ {Lower(cmd_trigger)}
    /\ managed' = Managed("delcom", cmd_trigger,
                          IF Lower(cmd_trigger) \in custom_commands THEN "deleted"
                          ELSE "not found")
    /\ ops' = ops + 1
    /\ UNCHANGED <<permissions, perm_call, command_aliases, routed, native, dispatchVars,
                   renderVars, resolverVars, eventVars>>

\* cmd_manage, action 'edit': the response of a stored command is replaced
EditCom(cmd_trigger) ==
    /\ up
    /\ ops < MaxOps
    /\ managed' = Managed("editcom", cmd_trigger,
                          IF Lower(cmd_trigger) \in custom_commands THEN "updated"
                          ELSE "not found")
    /\ ops' = ops + 1
    /\ UNCHANGED <<permVars, command_aliases, routed, native, dispatchVars, renderVars,
                   resolverVars, eventVars>>

NextRoute ==
    \/ \E aliases \in AliasFiles : Boot((CMD_HI :> 2), aliases)
    \/ \E d \in Disp, line \in Lines, author \in Invokers : RouteLine(d, line, author)
    \/ \E d \in Disp : GateEnter(d)
    \/ \E d \in Disp : GateDecide(d)
    \/ \E d \in Disp : Inc57(d)
    \/ \E d \in Disp : Inc59(d)
    \/ \E d \in Disp : Save45(d)
    \/ \E d \in Disp : Save46(d)
    \/ \E d \in Disp : Inc61(d)
    \/ \E d \in Disp, sent \in BOOLEAN : Reply(d, sent)
    \/ \E main_typed \in TypedMains, alias_typed \in TypedAliases :
           AddAlias(main_typed, alias_typed)
    \/ \E alias_typed \in TypedAliases : DelAlias(alias_typed)
    \/ \E main_typed \in TypedMains, alias_typed \in TypedAliases :
           EditAlias(main_typed, alias_typed)
    \/ \E cmd_trigger \in TypedTriggers : AddCom(cmd_trigger)
    \/ \E cmd_trigger \in TypedTriggers : DelCom(cmd_trigger)
    \/ \E cmd_trigger \in TypedTriggers : EditCom(cmd_trigger)

(***************************************************************************)
(* Specifications                                                          *)
(***************************************************************************)
Init ==
    /\ rpc = "idle"
    /\ req = [target |-> "spotify", query |-> Q_TEXT, ctx |-> TRUE, api |-> FALSE]
    /\ search_query = Q_TEXT
    /\ attempt = 0
    /\ codes = <<>>
    /\ lookups = 0
    /\ notices = 0
    /\ slept = 0
    /\ result = NoResult
    /\ redemption = NoRedemption
    /\ bot = "start"
    /\ websocket = 0
    /\ sock = [s \in Sockets |-> NoSock]
    /\ session_id = None
    /\ running = FALSE
    /\ subscriptions = <<>>
    /\ callbacks = {}
    /\ task = [l \in Tasks |-> NoTask]
    /\ custom_commands = {}
    /\ permissions = PERMISSIONS
    /\ perm_call = NoCall
    /\ up = FALSE
    /\ boots = 0
    /\ now = EPOCH
    /\ msgs = 0
    /\ disp = [d \in Disp |-> NoDispatch]
    /\ main = NoMain
    /\ cooldowns = <<>>
    /\ cooldown_state = <<>>
    /\ counts = <<>>
    /\ counts_file = [kind |-> "missing", data |-> <<>>]
    /\ fs_events = 0
    /\ last_modified = 0
    /\ watcher = NoWatch
    /\ cd_call = NoCooldownCall
    /\ passes = <<>>
    /\ expected = <<>>
    /\ edited = {}
    /\ chat = <<>>
    /\ render = NoRender
    /\ command_aliases = <<>>
    /\ routed = NoRoute
    /\ native = <<>>
    /\ managed = NoManage
    /\ ops = 0

SpecResolve == Init /\ [][NextResolve]_vars
SpecEvent == Init /\ [][NextEvent]_vars
SpecPermission == Init /\ [][NextPermission]_vars
SpecDispatch == Init /\ [][NextDispatch]_vars
SpecRender == Init /\ [][NextRender]_vars
SpecRoute == Init /\ [][NextRoute]_vars

\* what the event loop guarantees: a task that can go on does go on (a sleep
\* ends, an awaited connect or POST or callback returns or raises, a closed
\* connection wakes its reader); what the peer sends is not guaranteed
ClientStep(l) ==
    \/ ListenTop(l)
    \/ \E status \in PostStatuses : PostDone(l, status)
    \/ \E raised \in BOOLEAN : CallbackDone(l, raised)
    \/ \E ok \in BOOLEAN : ReconnectDone(l, ok)
    \/ IterEnd(l)
    \/ IterError(l)
    \/ \E ok \in BOOLEAN : FreshConnect(l, ok)

FairEvent == SpecEvent /\ \A l \in Tasks : WF_vars(ClientStep(l))

(***************************************************************************)
(* Properties of the resolver (under SpecResolve)                          *)
(***************************************************************************)
Returned == rpc = "done" /\ result.kind = "return"
AllTransient == \A i \in 1..Len(codes) : codes[i] \in retryable_codes
CrossLink ==
    \/ req.target = "spotify" /\ is_apple_link(req.query)
    \/ req.target = "cider" /\ is_spotify_link(req.query)

\* C1: in _add_to_queue_with_retry the add is never attempted more than twice, and
\* when every attempt ends in a retryable code the helper returns after exactly two
\* attempts, with the code of the second attempt as its failure.
C1_RetryBound ==
    /\ Len(codes) <= 2
    /\ (Returned /\ req.target = "spotify" /\ codes # <<>> /\ AllTransient)
          => /\ Len(codes) = 2
             /\ result = Ret(FALSE, codes[2], NoTrack)

C1_Witness ==
    /\ Returned
    /\ req.target = "spotify"
    /\ Len(codes) = 2
    /\ AllTransient
    /\ slept = 5

NamedTerminal == {"NO_DEVICE", "PREMIUM_REQUIRED", "SEARCH_NO_RESULTS"}

C3_RetryOnEitherTarget ==
    (rpc = "done" /\ codes # <<>> /\ codes[1] \in retryable_codes)
       => /\ Len(codes) = 2
          /\ slept = RETRY_DELAY

\* C4: a link of the other backend whose lookup yields no artist and name (the
\* search query is still the link) ends in a returned failure, and the target's add
\* was never called.
C4_NoAddAfterFailedLookup ==
    (rpc = "done" /\ CrossLink /\ search_query = req.query)
       => /\ result.kind = "return"
          /\ ~result.ok
          /\ codes = <<>>

(***************************************************************************)
(* Properties of the event-stream client (under SpecEvent, FairEvent)      *)
(***************************************************************************)
Live == {l \in Tasks : task[l].pc # "none"}
Connected == bot = "ready" /\ websocket # 0

DelayTable(n) ==
    CASE n = 1 -> 2
      [] n = 2 -> 4
      [] n = 3 -> 8
      [] n = 4 -> 16
      [] OTHER -> 32

\* C5: the delay a listen task awaits before reconnect attempt n, n being its
\* consecutive failures since the last message it handled, is min(2^n, 32): 2, 4,
\* 8, 16, 32 for n = 1..5; n is never more than 5 and the delay never more than 32.
C5_BackoffDelays ==
    \A l \in Tasks :
       task[l].pc = "sleep"
          => /\ task[l].fails \in 1..5
             /\ task[l].delay = DelayTable(task[l].fails)
             /\ task[l].delay <= 32

C5_Witness ==
    \E l \in Tasks : task[l].pc = "sleep" /\ task[l].fails = 5 /\ task[l].delay = 32

Stopped == bot = "ready" /\ ~running

Winds(l) ==
    \/ task'[l] = task[l]
    \/ task'[l] = NoTask
    \/ task[l].pc = "iter" /\ task'[l].pc = "top"

\* C6: once the client has given up (running is false) it stays stopped: no
\* connection is opened, no session id is set, and no task sleeps, connects or
\* handles a message any more; a task can only leave its read loop and end.
C6_StoppedIsAbsorbing ==
    [][Stopped => /\ running' = running
                  /\ websocket' = websocket
                  /\ session_id' = session_id
                  /\ \A l \in Tasks : Winds(l)]_vars

Declared == <<[type |-> sub_type, broadcaster_id |-> BROADCASTER_ID]>>

\* C7: handling a session_welcome sets session_id to the id it carries and posts one
\* subscription-creation request per declared subscription, each with that id as
\* its transport session; the bot's subscription is registered before any welcome
\* is handled, on the first connection and on every later one.
C7_WelcomeState ==
    \A l \in Tasks :
       task[l].welcome # None
          => /\ subscriptions = Declared
             /\ sub_type \in callbacks
             /\ Len(task[l].posts) <= Len(subscriptions)
             /\ \A k \in 1..Len(task[l].posts) :
                   task[l].posts[k] = Payload(subscriptions[k], task[l].welcome)
             /\ task[l].pc # "posting" => Len(task[l].posts) = Len(subscriptions)

C7_WelcomeStep ==
    \A l \in Tasks :
       (task[l].pc = "iter" /\ task'[l].welcome # None /\ task'[l].pc # "sleep"
           /\ task'[l].pc # "none" /\ task'[l].posts # task[l].posts)
          => session_id' = task'[l].welcome

C7_WelcomeSubscribes == [](C7_WelcomeState) /\ [][C7_WelcomeStep]_vars

C7_Witness ==
    \E l \in Tasks :
       /\ task[l].pc = "iter"
       /\ task[l].welcome = session_id
       /\ Len(task[l].posts) = 1
       /\ task[l].ws = websocket
       /\ sock[websocket].url \in ReconnectUrls

\* C8: while the connection made to a reconnect_url is the client's connection and
\* is open, the client is running, no listen task is in a backoff sleep and every
\* listen task's failure counter is 0.
C8_KeepsReconnected ==
    (Connected /\ sock[websocket].url \in ReconnectUrls /\ sock[websocket].state = "open")
       => /\ running
          /\ \A l \in Live : task[l].pc # "sleep" /\ task[l].attempts = 0

\* C9: at most one listen task exists, and at most one task reads from the current
\* connection.
C9_OneListener ==
    /\ Cardinality(Live) <= 1
    /\ Cardinality({l \in Tasks : task[l].pc = "iter" /\ task[l].ws = websocket}) <= 1

DeadSocket == Connected /\ running /\ sock[websocket].state \in {"closed_ok", "closed_err"}
Recovered == Connected /\ (~running \/ sock[websocket].state = "open")

\* C10: whenever the current connection has stopped delivering while running is
\* true, the client eventually has a new open connection or has stopped.
C10_DeadSocketRecovers == [](DeadSocket => <>Recovered)

\* C11: the step that ends a notification handler, whether the handler returned or
\* raised, leaves running as it is and has the task ask the same connection for the
\* next message with its failure counter at 0; a failure counted in that step is
\* the first one, and is counted only when another listen task is already reading
\* that connection.
C11_HandlerStep ==
    \A l \in Tasks :
       (task[l].pc = "callback" /\ task'[l] # task[l])
          => /\ running' = running
             /\ \/ /\ task'[l].pc = "iter"
                   /\ task'[l].ws = task[l].ws
                   /\ task'[l].attempts = 0
                \/ /\ Concurrent(l, task[l].ws)
                   /\ task'[l].pc = "sleep"
                   /\ task'[l].attempts = 1

C11_CaughtState ==
    \A l \in Tasks :
       task[l].caught => task[l].pc = "iter" /\ task[l].attempts = 0 /\ task[l].fails = 0

CalledKey ==
    IF perm_call.command_name \in DOMAIN permissions THEN perm_call.command_name
    ELSE <<"!">> \o perm_call.command_name

\* C15: for a checked name with an entry in the table (its own, or for a bare name the
\* entry of the '!'-prefixed name) the call returns true exactly when the invoker is
\* the broadcaster, or 'everyone' is allowed, or the invoker holds a listed role among
\* moderator, subscriber, vip.
C15_RolesDecide ==
    (perm_call.made /\ PermKey(perm_call.command_name, permissions) # <<>>)
       => LET a == perm_call.author
              roles == permissions[CalledKey]
          IN perm_call.result
                <=> \/ a.is_broadcaster
                    \/ "everyone" \in roles
                    \/ \E r \in roles \cap {"moderator", "subscriber", "vip"} :
                          \/ r = "moderator" /\ a.is_mod
                          \/ r = "subscriber" /\ a.is_subscriber
                          \/ r = "vip" /\ a.is_vip

C15_Witness ==
    /\ perm_call.made
    /\ perm_call.command_name = CMD_HI
    /\ CMD_HI \in DOMAIN permissions
    /\ permissions[CMD_HI] = {}
    /\ perm_call.author.is_broadcaster
    /\ perm_call.result

(***************************************************************************)
(* Cooldown gate                                                           *)
(***************************************************************************)
\* the step in which the check_cooldown call of dispatch d ends
CooldownCallEnds(d) ==
    /\ up'
    /\ \/ main = NoMain /\ main' = [task |-> d, line |-> 57]
       \/ main = [task |-> d, line |-> 196] /\ main' # main

\* C12: a check_cooldown call that returns gives TRUE exactly when the command
\* is in the cooldown table and now - last use < its duration; it stamps the
\* command with now exactly when the command is in the table and the call gives
\* FALSE, and leaves cooldown_state alone in every other case.
C12_CooldownStep ==
    \A d \in Disp :
        CooldownCallEnds(d) /\ ~cd_call'.raised =>
            LET cmd == disp[d].cmd
                configured == cmd \in DOMAIN cooldowns
                on == configured /\ now - Get(cooldown_state, cmd, 0) < cooldowns[cmd]
            IN /\ cd_call'.made
               /\ cd_call'.result = on
               /\ cooldown_state' = IF configured /\ ~on
                                    THEN [x \in DOMAIN cooldown_state \cup {cmd} |->
                                            IF x = cmd THEN now ELSE cooldown_state[x]]
                                    ELSE cooldown_state
C12_CooldownContract == [][C12_CooldownStep]_vars
\* a call found the command on cooldown; another command is not in the table
C12_Witness ==
    /\ cd_call = CooldownReturned(TRUE)
    /\ cooldown_state # <<>>
    /\ BARE_HI \notin DOMAIN cooldowns

\* the cooldown table that data/cooldowns.json holds
FileCooldowns == IF watcher.pc = "cooldowns" THEN watcher.buf ELSE cooldowns

\* C13: a dispatch passes the gate of a command only when the last pass of that
\* command lies at least the command's cooldown, as data/cooldowns.json has it,
\* behind: of the dispatches in one cooldown window at most one passes.
C13_PassStep ==
    \A d \in Disp :
        up' /\ main' = [task |-> d, line |-> 57] /\ main # main' =>
            LET cmd == disp[d].cmd
            IN cmd \in DOMAIN FileCooldowns /\ cmd \in DOMAIN passes =>
                   now - passes[cmd] >= FileCooldowns[cmd]
C13_OnePassPerWindow == [][C13_PassStep]_vars

(***************************************************************************)
(* Counters                                                                *)
(***************************************************************************)
\* C16: while nobody edits counts.json and no increment is under way, every
\* counter stands at its loaded value plus the number of increment_count calls
\* issued for its name: N increments raise it by exactly N.
C16_ExactlyN ==
    up /\ "counts.json" \notin edited /\ main = NoMain =>
        \A name \in DOMAIN expected : Get(counts, name, 0) = expected[name]

\* C17: while nobody edits counts.json, a step of the watcher thread's
\* load_counts neither removes a counter from memory nor lowers one.
C17_ReloadStep ==
    up' /\ "counts.json" \notin edited /\ watcher.pc \in {"open", "assign"} =>
        \A name \in DOMAIN counts : name \in DOMAIN counts' /\ counts'[name] >= counts[name]
C17_ReloadKeepsCounters == [][C17_ReloadStep]_vars

\* C18: while nobody edits counts.json, when an increment_count call returns,
\* load_counts of the file gives the counters that memory holds.
C18_ReturnStep ==
    \A d \in Disp :
        /\ up'
        /\ "counts.json" \notin edited
        /\ main = [task |-> d, line |-> 61]
        /\ disp'[d].pc = "reply"
        => load_counts(counts_file') = counts'
C18_WriteThrough == [][C18_ReturnStep]_vars

(***************************************************************************)
(* Template engine                                                         *)
(***************************************************************************)
\* a text with no brace and no '$('
Plain(t) ==
    \A i \in 1..Len(t) :
        /\ t[i] \notin {"{", "}"}
        /\ t[i] = "$" /\ i < Len(t) => t[i + 1] # "("

\* C19: a template with no '{', no '}' and no '$(' is rendered unchanged, and
\* without an exception, by process and by process_response, whatever the
\* variables, the context and the counters.
C19_PlainUnchanged ==
    render.pc = "done" /\ Plain(render.template) =>
        render.text = render.template /\ render.raised = "None"
\* a full-length plain template holding '$' and '(' apart was rendered by
\* process_response for a context with arguments while a counter exists
C19_Witness ==
    /\ render.pc = "done"
    /\ render.entry = "process_response"
    /\ Plain(render.template)
    /\ Len(render.template) = MaxLen
    /\ \E i, j \in 1..MaxLen : render.template[i] = "$" /\ render.template[j] = "("
    /\ render.ctx.args # <<>>
    /\ counts # <<>>

\* C20: the scan of process_response runs at most max_loops = 10 iterations and
\* substitutes at most once in each; it never stays in the loop after the tenth;
\* an unmatched '$(' ends the scan without an exception and leaves the text as
\* it stands; every step in the loop is one more iteration.
C20_ScanState ==
    /\ render.loops <= max_loops
    /\ render.subs <= render.loops
    /\ render.pc = "scan" => render.loops < max_loops
    /\ render.ended = "unmatched" => render.pc = "done" /\ render.raised = "None"
    /\ render.entry = "process_response" => render.raised = "None"
C20_ScanStep ==
    render.pc = "scan" =>
        /\ render'.loops = render.loops + 1
        /\ render'.ended = "unmatched" => render'.text = render.text
C20_ScanBounded == [](C20_ScanState) /\ [][C20_ScanStep]_vars
\* ten substitutions were made, each replacement brought the directive back,
\* and the text is returned with it
C20_Witness ==
    /\ render.pc = "done"
    /\ render.ended = "max_loops"
    /\ render.subs = max_loops
    /\ render.text = render.template
    /\ FindDirective(render.text, 1) # 0

\* C21: process_response raises nothing, and an iteration that meets a
\* directive it cannot resolve leaves the whole text, the directive included,
\* character for character as it was.
C21_NoRaise == render.entry = "process_response" => render.raised = "None"
C21_VerbatimStep ==
    render.pc = "scan" /\ CannotResolve(FirstDirective(render.text), counts) =>
        render'.text = render.text /\ render'.raised = "None"
C21_UnresolvedVerbatim == [](C21_NoRaise) /\ [][C21_VerbatimStep]_vars
\* a text was returned in which a resolved directive is followed by an unknown
\* name with arguments, which stands as it was written
C21_Witness ==
    /\ render.pc = "done"
    /\ render.subs = max_loops
    /\ render.text # render.template
    /\ CannotResolve(FirstDirective(render.text), counts)
    /\ FirstDirective(render.text).arg # <<>>
    /\ FirstDirective(render.text).tag = T_UNKNOWN

\* C22: an iteration that meets a directive with a recognized name that is
\* resolved from outside (urlfetch, eval, uptime) replaces it by an answer of
\* that directive, with or without an argument.
C22_OwnDirectiveStep ==
    LET d == FirstDirective(render.text)
    IN render.pc = "scan" /\ d.matched /\ d.cmd \in AwaitedDirectives =>
           \E answer \in Answers : render'.text = ReplaceFirst(render.text, d.tag, answer)
C22_DirectiveBeforeCounter == [][C22_OwnDirectiveStep]_vars

\* the event_message task d sends its reply in this step
Sends(d) == disp[d].pc = "reply" /\ disp'[d].pc = "idle" /\ Len(chat') = Len(chat) + 1
LastLine(lines) == lines[Len(lines)]

\* C23: the reply of a custom command is its stored template with the field
\* {user} replaced by the invoker's name, and then the directives resolved:
\* "Hi {user}! $(count)" sent by bob is answered "Hi bob! <count>".
C23_FieldsStep ==
    \A d \in Disp :
        Sends(d) =>
            LastLine(chat') =
                process_response(Format(RESPONSES[disp[d].cmd], (KEY_USER :> BOB)).text,
                                 ContextWrapper(disp[d].cmd), counts, 0)
C23_FieldsBeforeDirectives == [][C23_FieldsStep]_vars

\* C24: the $(count) of a reply shows the stored count of the command plus
\* the increments executed since, the one of this dispatch included, and "!hi"
\* and "hi" count on the same counter.
C24_CountStep ==
    \A d \in Disp :
        Sends(d) =>
            LastLine(chat') =
                process_response(RESPONSES[disp[d].cmd], ContextWrapper(disp[d].cmd),
                                 expected, 0)
C24_PostIncrementShown == [][C24_CountStep]_vars

\* the invoker of task d has none of the roles its command is reserved for
Denied(d) ==
    /\ disp[d].cmd \in DOMAIN permissions
    /\ disp[d].author = VIEWER
    /\ "everyone" \notin permissions[disp[d].cmd]
\* task d stands in check_cooldown and its command was used too recently
Cooling(d) ==
    /\ main = [task |-> d, line |-> 196]
    /\ disp[d].cmd \in DOMAIN cooldowns
    /\ now - Get(cooldown_state, disp[d].cmd, 0) < cooldowns[disp[d].cmd]
\* the dispatch ends and leaves no trace: no line in chat, no counter changed,
\* in memory or on disk
DroppedSilently(d) ==
    /\ disp'[d] = NoDispatch
    /\ main' = NoMain
    /\ chat' = chat
    /\ counts' = counts
    /\ expected' = expected
    /\ counts_file' = counts_file

\* C28: a dispatch whose invoker is denied, or whose command is on cooldown,
\* ends at that check with nothing sent and no counter incremented; a denial
\* also leaves the cooldown timestamps as they were, and no dispatch of a
\* denied invoker ever stands past the permission check.
C28_DropStep ==
    \A d \in Disp :
        /\ disp[d].pc = "ctx" /\ Denied(d) /\ disp'[d] # disp[d] /\ up' =>
                DroppedSilently(d) /\ cooldown_state' = cooldown_state
        /\ Cooling(d) /\ main' # main /\ up' =>
                DroppedSilently(d) /\ cooldown_state' = cooldown_state
C28_GatePassed == \A d \in Disp : disp[d].pc \in {"sync", "reply"} => ~Denied(d)
C28_SilentDrop == [](C28_GatePassed) /\ [][C28_DropStep]_vars
\* since the start one message has matched a custom command and its dispatch
\* is over, and check_cooldown was never called: the invoker was denied
C28_Witness ==
    /\ up
    /\ boots = 1
    /\ msgs = 1
    /\ \A d \in Disp : disp[d] = NoDispatch
    /\ cd_call = NoCooldownCall
    /\ chat = <<>>
    /\ counts = <<>>
    /\ cooldown_state = <<>>

\* C29: when the reply of a custom command ends, delivered or not, no
\* exception leaves event_message, and the commands, permissions, cooldowns,
\* counters and the other dispatches stand as they were.
C29_NoUncaught == \A d \in Disp : ~disp[d].uncaught
C29_ReplyStep ==
    \A d \in Disp :
        disp[d].pc = "reply" /\ disp'[d] # disp[d] /\ up' =>
            /\ disp'[d] = NoDispatch
            /\ \A e \in Disp \ {d} : disp'[e] = disp[e]
            /\ UNCHANGED <<custom_commands, permissions, cooldowns, cooldown_state, counts,
                           counts_file, main>>
C29_ReplyErrorContained == [](C29_NoUncaught) /\ [][C29_ReplyStep]_vars
\* two messages were dispatched and counted with the watcher thread idle all
\* along, and one line stands in chat: the send of one reply raised, the other
\* message was answered
C29_Witness ==
    /\ up
    /\ boots = 1
    /\ msgs = 2
    /\ \A d \in Disp : disp[d] = NoDispatch
    /\ last_modified = 0
    /\ edited = {}
    /\ expected = (BARE_HI :> 2)
    /\ counts = expected
    /\ Len(chat) = 1

\* all aliases of a table, in order
RECURSIVE Flatten(_)
Flatten(table) == IF table = <<>> THEN <<>> ELSE Head(table).aliases \o Flatten(Tail(table))
\* the line is the alias, or the alias and a space and more
IsAliasOf(line, alias) ==
    \/ Lower(line) = Lower(alias)
    \/ /\ Len(line) > Len(alias)
       /\ Lower(SubSeq(line, 1, Len(alias))) = Lower(alias)
       /\ line[Len(alias) + 1] = " "
\* no alias is held twice, and no alias goes on after another one and a space
NoOverlap(table) ==
    LET all == Flatten(table)
    IN \A i, j \in 1..Len(all) : i # j => ~IsAliasOf(all[i], all[j])
\* event_message routes a line in this step
Routes == msgs' = msgs + 1

\* C25: with a table without overlap, a '!'-prefixed line that is an alias, or
\* an alias followed by a space and more, is routed as the main command of
\* that alias followed by the rest of the line as it was typed; a line that
\* is neither for any alias is routed as it was typed.
C25_RewriteStep ==
    Routes /\ StartsWithBang(routed'.line) /\ NoOverlap(command_aliases) =>
        LET line == routed'.line
            table == command_aliases
        IN /\ \A i \in 1..Len(table) :
                  \A j \in 1..Len(table[i].aliases) :
                      IsAliasOf(line, table[i].aliases[j]) =>
                          routed'.content =
                              table[i].main \o SubSeq(line, Len(table[i].aliases[j]) + 1,
                                                      Len(line))
           /\ (\A i \in 1..Len(table) :
                   \A j \in 1..Len(table[i].aliases) : ~IsAliasOf(line, table[i].aliases[j]))
                  => routed'.content = line
C25_AliasRewrite == [][C25_RewriteStep]_vars
\* "!Tip 5" was routed as "!donate 5" through the alias "!tip", added in chat
C25_Witness ==
    /\ routed.line = L_TIP_5
    /\ routed.content = M_DONATE \o <<" ", "5">>
    /\ \E i \in 1..Len(command_aliases) : command_aliases[i].aliases = <<A_TIP>>

\* C26: no alias stands twice in the table, compared without case, and an
\* add of an alias that the table holds is answered "already exists" and
\* leaves the table as it was.
UniqueAliases(table) ==
    LET all == Flatten(table)
    IN \A i, j \in 1..Len(all) : i # j => Lower(all[i]) # Lower(all[j])
C26_AddStep ==
    /\ ops' = ops + 1
    /\ managed'.op = "addalias"
    /\ \E i \in 1..Len(Flatten(command_aliases)) :
           Lower(Flatten(command_aliases)[i]) = Lower(managed'.name)
    => command_aliases' = command_aliases /\ managed'.outcome = "exists"
C27_NoNativeTrigger ==
    \A trigger \in custom_commands : \A name \in commands : Lower(trigger) # <<"!">> \o name

\* C30: a line is handed to the native commands exactly when it starts with
\* '!' and its first word after the alias rewrite, in lower case, is no custom
\* command; a bare line that is no custom command changes nothing; a line
\* that is a custom command starts a dispatch, and no later step of that
\* dispatch hands anything to the native commands.
C30_RouteStep ==
    LET cmd_name == Lower(FirstWord(routed'.content))
        is_native == StartsWithBang(routed'.line) /\ cmd_name \notin custom_commands
    IN /\ native' # native => Routes /\ is_native
       /\ Routes /\ is_native => native' = Append(native, routed'.content) /\ disp' = disp
       /\ Routes /\ ~StartsWithBang(routed'.line) /\ cmd_name \notin custom_commands =>
              native' = native /\ disp' = disp /\ chat' = chat
       /\ Routes /\ cmd_name \in custom_commands =>
              /\ native' = native
              /\ \E d \in Disp : disp[d].pc = "idle" /\ disp'[d].pc = "ctx" /\ disp'[d].cmd = cmd_name
C30_NativeOnlyIfNotCustom == [][C30_RouteStep]_vars
\* "!Tip 5" went to the native commands as "!donate 5"; then "!d", an alias of
\* the custom command "!hi", was routed to that command and its invoker was
\* denied: nothing more went to the native commands
C30_Witness ==
    /\ msgs = 2
    /\ native = <<M_DONATE \o <<" ", "5">>>>
    /\ routed = [line |-> A_D, content |-> CMD_HI]
    /\ \A d \in Disp : disp[d] = NoDispatch
    /\ cd_call = NoCooldownCall
    /\ chat = <<>>

(***************************************************************************)
(* Properties of the redemption handler (under SpecResolve)                *)
(***************************************************************************)
Statuses == {redemption.updates[i] : i \in 1..Len(redemption.updates)}
EnqueueOk == result.kind = "return" /\ result.ok
EnqueueFailed == result.kind = "return" /\ ~result.ok
RefusedOffline == redemption.settings.disable_requests_offline /\ ~redemption.is_live
RefusedDisabled == redemption.user_input # <<>> /\ ~redemption.settings.spotify_requests_enabled

\* C31: with target spotify, an Apple Music link that carries a track id has been
\* looked up on its own backend before the Spotify add is called, for a request
\* of a redemption as for a request typed in chat.
C31_RedemptionResolvesLikeChat ==
    (/\ req.target = "spotify"
     /\ is_apple_link(req.query)
     /\ CiderExtractTrackId(req.query) # None
     /\ codes # <<>>)
       => lookups = 1

\* C37: a handled redemption has at most one status update; FULFILLED only after
\* the enqueue succeeded with auto_fulfill_on_success on; CANCELED only when the
\* stream is offline with requests disabled offline, when requests are disabled,
\* or when the enqueue failed with auto_refund_on_error on.
C37_StatusOnce ==
    /\ Len(redemption.updates) <= 1
    /\ "FULFILLED" \in Statuses =>
          EnqueueOk /\ redemption.settings.auto_fulfill_on_success
    /\ "CANCELED" \in Statuses =>
          \/ RefusedOffline
          \/ RefusedDisabled
          \/ EnqueueFailed /\ redemption.settings.auto_refund_on_error
    /\ ~("FULFILLED" \in Statuses /\ "CANCELED" \in Statuses)
\* the add failed twice with a transient code and the points were refunded
C37_Witness ==
    /\ redemption.pc = "done"
    /\ redemption.updates = <<"CANCELED">>
    /\ ~RefusedOffline
    /\ EnqueueFailed
    /\ Len(codes) = 2

\* C38: a handled redemption with non-empty input and both ids, whose enqueue was
\* attempted and did not succeed while auto_refund_on_error is on, has a CANCELED
\* update.
C38_FailedEnqueueRefunded ==
    (/\ redemption.pc = "done"
     /\ redemption.user_input # <<>>
     /\ redemption.ids
     /\ redemption.settings.auto_refund_on_error
     /\ codes # <<>>
     /\ ~EnqueueOk)
       => "CANCELED" \in Statuses

(***************************************************************************)
(* Dispatch and shutdown of the event-stream client (under SpecEvent)      *)
(***************************************************************************)
\* C32: a listen task whose notification handler is still running, on a
\* connection that is open, can read the next inbound message.
C32_ReadLoopFree ==
    \A l \in Tasks :
        (task[l].pc = "callback" /\ sock[task[l].ws].state = "open") => ENABLED RecvOther(l)

\* C33: after Bot.stop the client is stopped (running is false), so no listen
\* task reads, dispatches or reconnects any more.
C33_StoppedAfterShutdown == bot = "stopped" => ~running

(***************************************************************************)
(* Errors, invoker arguments and blocked scans (under SpecRender)          *)
(***************************************************************************)
\* the scan is about to take a directive that is resolved by an awaited call
AwaitedFirst ==
    /\ render.pc = "scan"
    /\ LET d == FirstDirective(render.text)
       IN d.matched /\ d.cmd \in AwaitedDirectives /\ d.arg # <<>>

\* C35: an iteration that meets a urlfetch, eval or uptime directive with an
\* argument raises nothing whatever its call answers: the directive is replaced
\* by the answer (the fetched or computed text, or the bracketed text of the
\* caught error), the rest of the text is kept, and the scan goes on unless
\* this was its last iteration; no render ends by an exception of a directive.
C35_ErrorStep ==
    (AwaitedFirst /\ render' # render) =>
        /\ render'.raised = "None"
        /\ \E answer \in Answers :
              render'.text = ReplaceFirst(render.text, FirstDirective(render.text).tag, answer)
        /\ render'.loops = render.loops + 1
        /\ render'.pc = "scan" \/ render'.ended = "max_loops"
C35_ErrorContained == [](render.ended # "raised") /\ [][C35_ErrorStep]_vars
\* '$(eval h) $(user)' was returned as '[Error] bob': the directive after the
\* failed one was resolved
C35_Witness ==
    /\ render.pc = "done"
    /\ render.template = T_EVAL_USER
    /\ render.text = ERROR_TEXT \o <<" ">> \o BOB
    /\ render.ended = "no directive"
    /\ render.subs = 2

\* C36: the {name} pass of process and of send_response raises nothing.
C36_FormatNeverRaises ==
    render.entry \in {"process", "send_response"} => render.raised = "None"

QueryOrToUser == {<<"q", "u", "e", "r", "y">>, <<"t", "o", "u", "s", "e", "r">>}
\* C39: $(query) and $(touser) insert the invoker's words as they were typed, and
\* a directive among them is resolved by a later iteration: with the argument
\* '$(count)' both are returned as the count, after two substitutions.
C39_InsertStep ==
    LET d == FirstDirective(render.text)
    IN (/\ render.pc = "scan"
        /\ d.matched
        /\ d.cmd \in QueryOrToUser
        /\ render.ctx.args # <<>>
        /\ render' # render) =>
           render'.text =
              ReplaceFirst(render.text, d.tag,
                           IF d.cmd = <<"q", "u", "e", "r", "y">> THEN Join(render.ctx.args)
                           ELSE render.ctx.args[1])
C39_Evaluated ==
    (/\ render.pc = "done"
     /\ render.entry = "process_response"
     /\ render.template \in {T_QUERY, T_TOUSER}
     /\ render.ctx.args = <<T_COUNT>>) =>
        /\ render.text = IF render.ctx.command_name = NoName THEN <<"0">>
                         ELSE ToStr(get_count(counts, render.ctx.command_name))
        /\ render.subs = 2
        /\ render.ended = "no directive"
C39_ArgumentDirectiveEvaluated == [](C39_Evaluated) /\ [][C39_InsertStep]_vars
\* '$(query)' invoked as '!h $(count)' with the counter of h at 2 came back as '2'
C39_Witness ==
    /\ render.pc = "done"
    /\ render.entry = "process_response"
    /\ render.template = T_QUERY
    /\ render.ctx.args = <<T_COUNT>>
    /\ render.ctx.command_name = <<"!", "h">>
    /\ counts = (<<"h">> :> 2)
    /\ render.text = <<"2">>

\* C40: an iteration whose leftmost complete directive cannot be resolved leaves
\* the text as it is and is followed by the next iteration on the same text;
\* a scan that returns a text whose leftmost directive cannot be resolved has
\* used up all its iterations.
C40_StuckStep ==
    (/\ render.pc = "scan"
     /\ CannotResolve(FirstDirective(render.text), counts)
     /\ render' # render) =>
        /\ render'.text = render.text
        /\ render'.loops = render.loops + 1
        /\ render'.pc = "scan" \/ render'.ended = "max_loops"
C40_StuckState ==
    (render.pc = "done" /\ CannotResolve(FirstDirective(render.text), counts)) =>
        render.ended = "max_loops" /\ render.loops = max_loops
C40_UnresolvableBlocks == [](C40_StuckState) /\ [][C40_StuckStep]_vars
\* '$(user) $(h h) $(user)': after the first substitution the unknown directive
\* is leftmost, the nine iterations left are spent on it and the second
\* '$(user)' is returned unresolved
C40_Witness ==
    /\ render.pc = "done"
    /\ render.template = T_USER \o <<" ">> \o T_UNKNOWN \o <<" ">> \o T_USER
    /\ render.text = BOB \o <<" ">> \o T_UNKNOWN \o <<" ">> \o T_USER
    /\ render.loops = max_loops
    /\ render.ended = "max_loops"

(***************************************************************************)
(* Reload of an edited data file (under SpecDispatch)                      *)
(***************************************************************************)
\* what load_counts makes of the file as it is on disk
Loaded == IF counts_file.kind = "json" THEN counts_file.data ELSE <<>>
\* every modification event was delivered, the watcher thread has returned and
\* no dispatch is under way
Quiet ==
    /\ up
    /\ fs_events = 0
    /\ watcher = NoWatch
    /\ main = NoMain
    /\ \A d \in Disp : disp[d].pc = "idle"

\* C34: once counts.json was edited from outside and every modification event
\* has been handled, the counters in memory are those of the file.
C34_ReloadedWhenQuiet == (Quiet /\ "counts.json" \in edited) => counts = Loaded

====
